---- MODULE Spec2Model ----
(***************************************************************************)
(* Model of the vision pipeline of motor-control/app:                      *)
(*   camera.py        CameraStream  (frame source, MJPEG reassembly)       *)
(*   car_detector.py  CarDetector   (motion detector, counting hysteresis) *)
(*                                                                         *)
(* These specifications share the module:                                  *)
(*   SpecReassembly  the byte-stream reassembly of _capture_loop fed with  *)
(*                   a stream of marker-delimited frames cut into chunks   *)
(*   SpecCounter     the counting state machine _update_count              *)
(*   Spec            the CameraStream lifecycle: start(), stop(), the      *)
(*                   capture worker and the encoder subprocess             *)
(*   SpecSlot        a started CameraStream: the capture worker publishing *)
(*                   frames while generate_mjpeg generators poll the slot  *)
(*   SpecTimed       the capture worker from start() on, with the time     *)
(*                   it has slept                                          *)
(*   SpecDetector    CarDetector beside a started camera: the detection    *)
(*                   worker and the calls of the request layer             *)
(*   SpecViewer      CarDetector.generate_mjpeg beside a running detector  *)
(*   SpecBlob        the blob extraction of _detect_motion on a mask       *)
(*                   holding one filled rectangle                          *)
(*   SpecClamp, SpecShift, SpecErode, SpecEdges, SpecUpdate                *)
(*                   one array operation of _detect_motion each, applied   *)
(*                   to arguments drawn from a bounded set                 *)
(*   SpecSearch      _find_largest_blob on masks of several blobs          *)
(*   SpecGated       one detection worker whose detections are any, with   *)
(*                   the counting and highlight flags switched meanwhile   *)
(*   SpecRace        the same worker with the increment of the count as a  *)
(*                   read and a write, beside set_car_count and            *)
(*                   reset_car_count                                       *)
(*   SpecSettings    POST /api/dev-settings requests handled one after     *)
(*                   another beside the detection worker                   *)
(* FairSlot and FairDetector add the scheduling of the worker threads.     *)
(***************************************************************************)
EXTENDS Integers, Sequences, FiniteSets, TLC

\* ------------------------------------------------------------------------
\* Bounds of the model
\* ------------------------------------------------------------------------
MaxFrames == 2
MaxChunk == 6

\* ------------------------------------------------------------------------
\* Bytes and markers (camera.py:16-17)
\* ------------------------------------------------------------------------
\* The byte values that matter to the reassembly: 0xFF, 0xD8, 0xD9 and one
\* byte (0x00) standing for every other value.
Bytes == {255, 216, 217, 0}

JPEG_START == <<255, 216>>

JPEG_END == <<255, 217>>

\* bytes/bytearray.find(pat, from): lowest 0-based index >= from at which pat
\* occurs in buf, -1 when there is none.
Find(buf, pat, from) ==
    LET hits == {i \in from..(Len(buf) - Len(pat)) :
                    \A k \in 1..Len(pat) : buf[i + k] = pat[k]}
    IN  IF hits = {} THEN -1
        ELSE CHOOSE i \in hits : \A j \in hits : i <= j

\* buf[a:b] with 0-based, end-exclusive a <= b.
Slice(buf, a, b) == SubSeq(buf, a + 1, b)

\* del buf[:n]
DelPrefix(buf, n) == SubSeq(buf, n + 1, Len(buf))

\* The inner loop without `del buf[:start]` (camera.py:136-137): the bytes
\* before a pending start marker stay in the buffer.
RECURSIVE ExtractFrames_KeepPrefix(_, _, _)
ExtractFrames_KeepPrefix(buf, base, out) ==
    LET start == Find(buf, JPEG_START, 0) IN
    IF start = -1
    THEN [buf |-> <<>>, frames |-> out]
    ELSE LET end == Find(buf, JPEG_END, start + 2) IN
         IF end = -1
         THEN [buf |-> buf, frames |-> out]
         ELSE ExtractFrames_KeepPrefix(DelPrefix(buf, end + 2),
                                       base + end + 2,
                                       Append(out, [at |-> base + start,
                                                    bytes |-> Slice(buf, start, end + 2)]))

\* The inner `while True` loop of _capture_loop (camera.py:128-145) run on
\* the accumulation buffer: the buffer it leaves and the frames it publishes,
\* in order.  base is the stream offset of buf[0]; each published frame is
\* recorded with the stream offset `at` of its first byte.
RECURSIVE ExtractFrames(_, _, _)
ExtractFrames(buf, base, out) ==
    LET start == Find(buf, JPEG_START, 0) IN
    IF start = -1
    THEN [buf |-> <<>>, frames |-> out]
    ELSE LET end == Find(buf, JPEG_END, start + 2) IN
         IF end = -1
         THEN [buf |-> IF start > 0 THEN DelPrefix(buf, start) ELSE buf,
               frames |-> out]
         ELSE ExtractFrames(DelPrefix(buf, end + 2), base + end + 2,
                            Append(out, [at |-> base + start,
                                         bytes |-> Slice(buf, start, end + 2)]))

\* buf.extend(chunk) followed by the inner loop (camera.py:126-145).
ProcessChunk(buf, base, chunk) == ExtractFrames(buf \o chunk, base, <<>>)

\* ------------------------------------------------------------------------
\* Streams of marker-delimited frames
\* ------------------------------------------------------------------------
SeqsUpTo(S, n) == UNION {[1..k -> S] : k \in 0..n}

HasMarker(s) == Find(s, JPEG_START, 0) # -1 \/ Find(s, JPEG_END, 0) # -1

\* Frame payloads: none holds a marker.  They cover the empty payload, an
\* ordinary byte, and the marker bytes 0xFF, 0xD8, 0xD9 at the head and at
\* the tail of a payload.
Payloads ==
    {p \in {<<>>, <<0>>, <<255>>, <<216>>, <<217>>, <<0, 255>>, <<217, 216>>} :
        ~HasMarker(p)}

MkFrame(p) == JPEG_START \o p \o JPEG_END

\* Garbage before the first start marker: bytes that hold no start marker and
\* do not form one with the bytes that follow.
Garbages ==
    {g \in {<<>>, <<0>>, <<255>>, <<255, 217>>, <<216, 0>>} :
        Find(g \o <<255>>, JPEG_START, 0) = -1}

RECURSIVE Concat(_)
Concat(ss) == IF ss = <<>> THEN <<>> ELSE Head(ss) \o Concat(Tail(ss))

VARIABLES
    \* SpecReassembly
    garbage,      \* bytes the encoder emits before the first frame
    frames,       \* the frames the encoder emits, in order
    pos,          \* number of stream bytes the worker has read so far
    cutInStart,   \* some read ended between the two bytes of a start marker
    buf,          \* the accumulation buffer of _capture_loop
    published,    \* the frames published so far, in order, with their offsets
    \* SpecCounter: CarDetector's Counter State (car_detector.py:66-71)
    car_present,      \* _car_present
    detect_streak,    \* _detect_streak
    clear_streak,     \* _clear_streak
    car_count,        \* _car_count
    on_car_counted,   \* a count-changed callback is registered
    cb_calls,         \* the calls the callback has received, in order
    escaped,          \* the last _update_count let an exception out
    detect_worker,    \* "running" | "dead": the thread running _detect_loop
    log,              \* one entry per executed _update_count call
                      \* (SpecGated: per executed detection)
    \* Spec, SpecSlot: CameraStream (camera.py:28-33) and its threads
    running,          \* _running
    process,          \* _process: 0 (None) or the id of a subprocess
    capture_thread,   \* _capture_thread: 0 (None) or the id of a worker
    frame,            \* _frame: 0 (None) or the id of a frame object
    frame_id,         \* _frame_id
    heap,             \* the frame objects still referenced: id -> bytes
    npub,             \* number of frames published so far
    procs,            \* the encoder subprocesses launched, by id
    worker,           \* the threads running _capture_loop, by id
    caller,           \* the threads calling start() and stop()
    reader,           \* the generators of generate_mjpeg
    since_stop,       \* "no" | "stopped" | "restarted"
    calls,            \* number of start() and stop() calls made so far
    slept,            \* tenths of a second the capture worker has slept
                      \* since start() returned (-1: nobody is timing it)
    \* SpecDetector: CarDetector (car_detector.py:48-71) and its threads
    d_running,          \* _running
    d_thread,           \* _thread: 0 (None) or the id of a worker
    counting_enabled,   \* _counting_enabled
    highlight_enabled,  \* _highlight_enabled
    bg_frame,           \* _bg_frame: "none" or the image it was taken from
    motion_box,         \* _motion_box: "none" | "box"
    overlay_frame,      \* _overlay_frame: 0 (None) or the id of an overlay
    overlay_frame_id,   \* _overlay_frame_id
    dworker,            \* the threads running _detect_loop, by id
    dcaller,            \* the request thread calling into the detector
    viewer,             \* a generator of CarDetector.generate_mjpeg
    d_hist,             \* what has happened so far (see DetectorConstructed)
    srv,                \* the stored settings count_cars and highlight_cars
                        \* (db.py:232-240) and the POST /api/dev-settings
                        \* request being handled (server.py:307-352)
    \* SpecBlob: the rectangle of the raw mask, with the ROI origin, handed to
    \* the blob extractor, and the (motion_box, blob_area) it answers
    rect,
    blob,
    \* SpecClamp, SpecShift, SpecErode, SpecEdges, SpecUpdate: the arguments
    \* of one array operation of _detect_motion and its result
    op_in,
    op_out

rvars == <<garbage, frames, pos, cutInStart, buf, published>>

cvars == <<car_present, detect_streak, clear_streak, car_count, on_car_counted,
           cb_calls, escaped, detect_worker, log>>

camvars == <<running, process, capture_thread, frame, frame_id, heap, npub,
             procs, worker, caller, reader, since_stop, calls, slept>>

dvars == <<d_running, d_thread, counting_enabled, highlight_enabled, bg_frame,
           motion_box, overlay_frame, overlay_frame_id, dworker, dcaller,
           viewer, d_hist, srv>>

bvars == <<rect, blob, op_in, op_out>>

\* The components an action of the CameraStream, of the reassembly or of the
\* counting state machine alone never touches.
ovars == <<dvars, bvars>>

vars == <<rvars, cvars, camvars, dvars, bvars>>

\* ------------------------------------------------------------------------
\* CameraStream: state (camera.py:21-33)
\* ------------------------------------------------------------------------
MaxProcs == 2
MaxWorkers == 2
MaxFrameId == 2
MaxCalls == 2
MaxBuf == 8
MaxSlept == 30

ProcIds == 1..MaxProcs

WorkerIds == 1..MaxWorkers

\* The threads of the request layer that call start() and stop().
Callers == {"c1", "c2"}

\* The generators created by generate_mjpeg().
Readers == {"g1", "g2"}

NoProc == [st |-> "unborn", mode |-> "none", mid |-> FALSE]

NoWorker == [pc |-> "unborn", ret |-> "none", mode |-> "none", rp |-> 0,
             buf |-> <<>>]

\* generate_mjpeg: last_id = -1 (camera.py:167) and the frame object the
\* generator holds (ref, 0: none yet).  yid and prev_yid record the sequence
\* numbers of the last frame yielded and of the one yielded before it (-1:
\* none), obs the last _frame_id seen under the lock.
NewReader == [last_id |-> -1, ref |-> 0, yid |-> -1, prev_yid |-> -1,
              obs |-> 0]

\* CameraStream.__init__ (camera.py:28-33); no thread has called in yet.
CameraConstructed ==
    /\ running = FALSE
    /\ process = 0
    /\ capture_thread = 0
    /\ frame = 0
    /\ frame_id = 0
    /\ heap = <<>>
    /\ npub = 0
    /\ procs = [p \in ProcIds |-> NoProc]
    /\ worker = [w \in WorkerIds |-> NoWorker]
    /\ caller = [c \in Callers |-> "idle"]
    /\ reader = [g \in Readers |-> NewReader]
    /\ since_stop = "no"
    /\ calls = 0
    /\ slept = -1

\* ------------------------------------------------------------------------
\* CarDetector: state (car_detector.py:48-71)
\* ------------------------------------------------------------------------
MaxDWorkers == 2

DWorkerIds == 1..MaxDWorkers

\* A thread of _detect_loop: its position and its locals frame_jpeg (fj, with
\* fid the id of that frame object), detected and motion_box.
NoDWorker == [pc |-> "unborn", fj |-> <<>>, fid |-> 0, detected |-> FALSE,
              box |-> "none"]

\* generate_mjpeg: last_overlay_id = -1 (car_detector.py:421); item is the
\* frame it yielded last: <<"overlay", id>>, <<"raw", id>> or none yet.
NewViewer == [pc |-> "overlay", last_overlay_id |-> -1, item |-> <<"none", 0>>]

\* The fields a POST /api/dev-settings request may carry, each absent or
\* with a value (server.py:312-313, 328-329).
NoRequest == [count_cars |-> "absent", highlight_cars |-> "absent"]

\* The request layer with the settings c and h stored and no request being
\* handled; handled counts the requests answered so far.
Stored(c, h) ==
    [count_cars |-> c, highlight_cars |-> h, req |-> NoRequest,
     at |-> "none", handled |-> 0]

\* CarDetector.__init__ (car_detector.py:52-64).  d_hist records, for the
\* properties: the id of the frame _update_count ran on last (counted_on),
\* the number of detection cycles and of calls made so far, whether stop()
\* has returned with no start() since (stopped), the frames the generator
\* has yielded since the last publish (yielded) and whether it has yielded
\* one of them a second time (dup).
DetectorConstructed ==
    /\ d_running = FALSE
    /\ d_thread = 0
    /\ counting_enabled = FALSE
    /\ highlight_enabled = FALSE
    /\ bg_frame = "none"
    /\ motion_box = "none"
    /\ overlay_frame = 0
    /\ overlay_frame_id = 0
    /\ dworker = [w \in DWorkerIds |-> NoDWorker]
    /\ dcaller = "idle"
    /\ viewer = NewViewer
    /\ d_hist = [counted_on |-> 0, cycles |-> 0, calls |-> 0,
                 stopped |-> FALSE, yielded |-> {}, dup |-> FALSE]
    /\ srv = Stored(FALSE, FALSE)

\* The detector as the other specifications hold it: constructed, unused.
DetectorIdle == DetectorConstructed

\* No mask has been handed to the blob extractor.
NoRect == [x |-> 0, y |-> 0, w |-> 0, h |-> 0, roi_x1 |-> 0, roi_y1 |-> 0]

NoBlob == [st |-> "unset", found |-> FALSE, box |-> <<0, 0, 0, 0>>, area |-> 0]

\* No array operation has been given its arguments.
NoOp == [done |-> FALSE]

BlobIdle == rect = NoRect /\ blob = NoBlob /\ op_in = NoOp /\ op_out = NoOp

\* The capture worker as the other specifications hold it: nothing read yet.
ReassemblyIdle ==
    /\ garbage = <<>>
    /\ frames = <<>>
    /\ pos = 0
    /\ cutInStart = FALSE
    /\ buf = <<>>
    /\ published = <<>>

\* ------------------------------------------------------------------------
\* CarDetector: counting state machine (car_detector.py:25-27, 375-392)
\* ------------------------------------------------------------------------
MaxCycles == 12

CONFIRM_FRAMES == 2

CLEAR_FRAMES == 5

\* CarDetector.__init__ (car_detector.py:66-71), no callback registered.
CounterConstructed ==
    /\ car_present = FALSE
    /\ detect_streak = 0
    /\ clear_streak = 0
    /\ car_count = 0
    /\ cb_calls = <<>>
    /\ escaped = FALSE
    /\ detect_worker = "running"
    /\ log = <<>>

\* The detector as the reassembly specification holds it: constructed, unused.
CounterIdle == CounterConstructed /\ on_car_counted = FALSE

\* _update_count with the detect streak kept across a clear cycle.
update_count_KeepDetectStreak(vehicle_detected, cb_raises) ==
    IF vehicle_detected
    THEN /\ detect_streak' = detect_streak + 1
         /\ clear_streak' = 0
         /\ IF ~car_present /\ detect_streak + 1 >= CONFIRM_FRAMES
            THEN /\ car_present' = TRUE
                 /\ car_count' = car_count + 1
                 /\ IF on_car_counted
                    THEN cb_calls' = Append(cb_calls, [arg |-> car_count + 1,
                                                       raised |-> cb_raises])
                    ELSE cb_calls' = cb_calls
                 /\ escaped' = FALSE
            ELSE /\ UNCHANGED <<car_present, car_count, cb_calls>>
                 /\ escaped' = FALSE
    ELSE /\ clear_streak' = clear_streak + 1
         /\ detect_streak' = detect_streak
         /\ car_present' = (car_present /\ ~(clear_streak + 1 >= CLEAR_FRAMES))
         /\ escaped' = FALSE
         /\ UNCHANGED <<car_count, cb_calls>>

\* _update_count with the clear streak kept across a detecting cycle.
update_count_KeepClearStreak(vehicle_detected, cb_raises) ==
    IF vehicle_detected
    THEN /\ detect_streak' = detect_streak + 1
         /\ clear_streak' = clear_streak
         /\ IF ~car_present /\ detect_streak + 1 >= CONFIRM_FRAMES
            THEN /\ car_present' = TRUE
                 /\ car_count' = car_count + 1
                 /\ IF on_car_counted
                    THEN cb_calls' = Append(cb_calls, [arg |-> car_count + 1,
                                                       raised |-> cb_raises])
                    ELSE cb_calls' = cb_calls
                 /\ escaped' = FALSE
            ELSE /\ UNCHANGED <<car_present, car_count, cb_calls>>
                 /\ escaped' = FALSE
    ELSE /\ clear_streak' = clear_streak + 1
         /\ detect_streak' = 0
         /\ car_present' = (car_present /\ ~(clear_streak + 1 >= CLEAR_FRAMES))
         /\ escaped' = FALSE
         /\ UNCHANGED <<car_count, cb_calls>>

\* _update_count with the callback handed the count before the increment.
update_count_NotifyOldCount(vehicle_detected, cb_raises) ==
    IF vehicle_detected
    THEN /\ detect_streak' = detect_streak + 1
         /\ clear_streak' = 0
         /\ IF ~car_present /\ detect_streak + 1 >= CONFIRM_FRAMES
            THEN /\ car_present' = TRUE
                 /\ car_count' = car_count + 1
                 /\ IF on_car_counted
                    THEN cb_calls' = Append(cb_calls, [arg |-> car_count,
                                                       raised |-> cb_raises])
                    ELSE cb_calls' = cb_calls
                 /\ escaped' = FALSE
            ELSE /\ UNCHANGED <<car_present, car_count, cb_calls>>
                 /\ escaped' = FALSE
    ELSE /\ clear_streak' = clear_streak + 1
         /\ detect_streak' = 0
         /\ car_present' = (car_present /\ ~(clear_streak + 1 >= CLEAR_FRAMES))
         /\ escaped' = FALSE
         /\ UNCHANGED <<car_count, cb_calls>>

\* _update_count with the callback called outside any try block.
update_count_NoTry(vehicle_detected, cb_raises) ==
    IF vehicle_detected
    THEN /\ detect_streak' = detect_streak + 1
         /\ clear_streak' = 0
         /\ IF ~car_present /\ detect_streak + 1 >= CONFIRM_FRAMES
            THEN /\ car_present' = TRUE
                 /\ car_count' = car_count + 1
                 /\ IF on_car_counted
                    THEN cb_calls' = Append(cb_calls, [arg |-> car_count + 1,
                                                       raised |-> cb_raises])
                    ELSE cb_calls' = cb_calls
                 /\ escaped' = (on_car_counted /\ cb_raises)
            ELSE /\ UNCHANGED <<car_present, car_count, cb_calls>>
                 /\ escaped' = FALSE
    ELSE /\ clear_streak' = clear_streak + 1
         /\ detect_streak' = 0
         /\ car_present' = (car_present /\ ~(clear_streak + 1 >= CLEAR_FRAMES))
         /\ escaped' = FALSE
         /\ UNCHANGED <<car_count, cb_calls>>

\* _update_count(vehicle_detected).  cb_raises: the registered callback raises
\* an Exception when it is called in this cycle.
update_count(vehicle_detected, cb_raises) ==
    IF vehicle_detected
    THEN /\ detect_streak' = detect_streak + 1
         /\ clear_streak' = 0
         /\ IF ~car_present /\ detect_streak + 1 >= CONFIRM_FRAMES
            THEN /\ car_present' = TRUE
                 /\ car_count' = car_count + 1
                 /\ IF on_car_counted
                    THEN cb_calls' = Append(cb_calls, [arg |-> car_count + 1,
                                                       raised |-> cb_raises])
                    ELSE cb_calls' = cb_calls
                 \* try / except Exception: log.exception (lines 384-387)
                 /\ escaped' = FALSE
            ELSE /\ UNCHANGED <<car_present, car_count, cb_calls>>
                 /\ escaped' = FALSE
    ELSE /\ clear_streak' = clear_streak + 1
         /\ detect_streak' = 0
         /\ car_present' = (car_present /\ ~(clear_streak + 1 >= CLEAR_FRAMES))
         /\ escaped' = FALSE
         /\ UNCHANGED <<car_count, cb_calls>>

\* One cycle of the detection worker that reaches _update_count
\* (car_detector.py:252-253): an exception leaving _update_count is caught
\* nowhere in _detect_loop and ends the worker thread.
CounterCycle(vehicle_detected, cb_raises) ==
    /\ detect_worker = "running"
    /\ Len(log) < MaxCycles
    /\ update_count(vehicle_detected, cb_raises)
    /\ detect_worker' = IF escaped' THEN "dead" ELSE "running"
    /\ log' = Append(log, [detected |-> vehicle_detected,
                           count |-> car_count',
                           present |-> car_present',
                           calls |-> Len(cb_calls'),
                           raised |-> (Len(cb_calls') > Len(cb_calls)
                                        /\ cb_raises)])
    /\ UNCHANGED on_car_counted

InitCounter ==
    /\ CounterConstructed
    /\ on_car_counted \in BOOLEAN
    /\ ReassemblyIdle
    /\ CameraConstructed
    /\ DetectorIdle
    /\ BlobIdle

NextCounter ==
    \E d \in BOOLEAN, r \in BOOLEAN :
        CounterCycle(d, r) /\ UNCHANGED <<rvars, camvars, ovars>>

SpecCounter == InitCounter /\ [][NextCounter]_vars

\* ------------------------------------------------------------------------
\* Claims on the counting state machine
\* ------------------------------------------------------------------------
\* The inputs of the executed cycles, in order.
Hist == [i \in 1..Len(log) |-> log[i].detected]

CountBefore(i) == IF i = 1 THEN 0 ELSE log[i - 1].count

CallsBefore(i) == IF i = 1 THEN 0 ELSE log[i - 1].calls

\* The cycles in which the count was incremented.
Incs == {i \in 1..Len(log) : log[i].count # CountBefore(i)}

IsPrefix(s, t) == Len(s) <= Len(t) /\ \A i \in 1..Len(s) : s[i] = t[i]

\* detect, detect, then 10 clears.
DetectDetectClears == [i \in 1..(2 + 10) |-> i <= 2]

NoTwoDetectsInARow == \A i \in 1..(Len(log) - 1) : ~(Hist[i] /\ Hist[i + 1])

\* C5: from the initial Counter State, detect, detect, 10 clears increments
\* the count exactly once, at the 2nd cycle (and at every point of that
\* sequence the increments are exactly those); a sequence in which detect
\* never occurs twice in a row increments nothing.
C5_Hysteresis ==
    /\ IsPrefix(Hist, DetectDetectClears) =>
          /\ Incs = (IF Len(log) >= 2 THEN {2} ELSE {})
          /\ car_count = Cardinality(Incs)
    /\ NoTwoDetectsInARow => (Incs = {} /\ car_count = 0)

C5_Witness ==
    /\ Hist = DetectDetectClears
    /\ Incs = {2}
    /\ car_count = 1

\* C6: between any two count increments lies a run of at least CLEAR_FRAMES
\* consecutive non-detecting cycles.
C6_NoDoubleCount ==
    \A i \in Incs : \A j \in Incs :
        i < j =>
            \E k \in (i + 1)..(j - CLEAR_FRAMES) :
                \A m \in k..(k + CLEAR_FRAMES - 1) : ~log[m].detected

C6_Witness ==
    /\ Cardinality(Incs) >= 2
    /\ \E i \in 1..Len(log) : log[i].detected /\ log[i].present /\ i \notin Incs

\* C10: a callback that raises is isolated: nothing leaves _update_count and
\* the worker lives on; the cycle in which it raised keeps the transition to
\* Present and its increment; the callback is called once for that increment
\* and not again until the next one.
C10_CallbackIsolated ==
    /\ ~escaped
    /\ detect_worker = "running"
    /\ \A i \in 1..Len(log) :
          /\ log[i].raised =>
                /\ log[i].present
                /\ log[i].count = CountBefore(i) + 1
          /\ log[i].calls = CallsBefore(i) + (IF on_car_counted /\ i \in Incs THEN 1 ELSE 0)
    /\ Len(cb_calls) = (IF on_car_counted THEN Cardinality(Incs) ELSE 0)

C10_Witness ==
    /\ \E i \in 1..(Len(log) - 1) : log[i].raised /\ log[i + 1].detected
    /\ \E i \in 1..Len(cb_calls) : cb_calls[i].raised /\ cb_calls[i].arg = car_count
    /\ car_present
    /\ detect_worker = "running"

\* C22: with a callback registered, a cycle that takes the detector from
\* Absent to Present with the detect streak at CONFIRM_FRAMES or more raises
\* the count by exactly one and calls the callback exactly once, in that
\* cycle, with the new count; no other cycle changes the count or calls the
\* callback.
C22_NotifiedOncePerIncrement ==
    [][on_car_counted =>
          IF ~car_present /\ car_present'
          THEN /\ detect_streak' >= CONFIRM_FRAMES
               /\ car_count' = car_count + 1
               /\ Len(cb_calls') = Len(cb_calls) + 1
               /\ SubSeq(cb_calls', 1, Len(cb_calls)) = cb_calls
               /\ cb_calls'[Len(cb_calls')].arg = car_count'
          ELSE /\ car_count' = car_count
               /\ cb_calls' = cb_calls]_vars

\* Two vehicles have been counted and notified, the second after the first
\* had cleared.
C22_Witness ==
    /\ on_car_counted
    /\ car_count = 2
    /\ Len(cb_calls) = 2
    /\ cb_calls[2].arg = 2
    /\ car_present

\* ------------------------------------------------------------------------
\* Reassembly specification
\* ------------------------------------------------------------------------
Stream == garbage \o Concat(frames)

\* Stream offset of the first byte of the k-th frame.
FrameAt(k) == Len(garbage) + Len(Concat(SubSeq(frames, 1, k - 1)))

\* Stream offsets that lie between the two bytes of a start / end marker.
InStartMarker == {FrameAt(k) + 1 : k \in 1..Len(frames)}

InEndMarker == {FrameAt(k) + Len(frames[k]) - 1 : k \in 1..Len(frames)}

InitReassembly ==
    /\ garbage \in Garbages
    /\ frames \in SeqsUpTo({MkFrame(p) : p \in Payloads}, MaxFrames)
    /\ pos = 0
    /\ cutInStart = FALSE
    /\ buf = <<>>
    /\ published = <<>>
    /\ CounterIdle
    /\ CameraConstructed
    /\ DetectorIdle
    /\ BlobIdle

\* One iteration of the capture loop with a non-empty read of n bytes
\* (camera.py:116, 126-145).
ReadChunk(n) ==
    /\ pos + n <= Len(Stream)
    /\ LET r == ProcessChunk(buf, pos - Len(buf),
                             SubSeq(Stream, pos + 1, pos + n)) IN
       /\ buf' = r.buf
       /\ published' = published \o r.frames
    /\ pos' = pos + n
    /\ cutInStart' = (cutInStart \/ pos + n \in InStartMarker)
    /\ UNCHANGED <<garbage, frames>>
    /\ UNCHANGED <<cvars, camvars, ovars>>

NextReassembly == \E n \in 1..MaxChunk : ReadChunk(n)

SpecReassembly == InitReassembly /\ [][NextReassembly]_vars

\* ------------------------------------------------------------------------
\* Claims on the reassembly
\* ------------------------------------------------------------------------
AllRead == pos = Len(Stream)

\* C1: a stream that is the concatenation of N marker-delimited frames,
\* delivered in chunks cut anywhere, publishes exactly those N frames, in
\* order and byte for byte: what is published is always a prefix of the
\* frames, each taken from its own place in the stream, and once the whole
\* stream has been read all N frames have been published.
C1_ExactFrames ==
    garbage = <<>> =>
        /\ Len(published) <= Len(frames)
        /\ \A i \in 1..Len(published) :
              published[i].bytes = frames[i] /\ published[i].at = FrameAt(i)
        /\ AllRead => Len(published) = Len(frames)

\* The same statement for the deliveries in which no read ends between the
\* two bytes of a start marker.
C1_ExactFramesUnlessStartCut ==
    (garbage = <<>> /\ ~cutInStart) =>
        /\ Len(published) <= Len(frames)
        /\ \A i \in 1..Len(published) :
              published[i].bytes = frames[i] /\ published[i].at = FrameAt(i)
        /\ AllRead => Len(published) = Len(frames)

\* C2: with garbage before the first start marker, nothing is published
\* before the first complete frame has been received, the first frame
\* published begins at the first start marker, and no published frame holds
\* a garbage byte.
C2_Resync ==
    (garbage # <<>> /\ frames # <<>> /\ published # <<>>) =>
        /\ pos >= FrameAt(1) + Len(frames[1])
        /\ published[1].at = FrameAt(1)
        /\ \A i \in 1..Len(published) : published[i].at >= Len(garbage)

C2_NoGarbagePublished ==
    (garbage # <<>> /\ frames # <<>> /\ published # <<>>) =>
        /\ pos >= FrameAt(1) + Len(frames[1])
        /\ \A i \in 1..Len(published) : published[i].at >= Len(garbage)

\* C21: each time the inner reassembly loop has finished with a chunk, the
\* accumulation buffer is empty, or it begins with the start marker and holds
\* no end marker at offset 2 or beyond.
C21_BufferInvariant ==
    \/ buf = <<>>
    \/ /\ Find(buf, JPEG_START, 0) = 0
       /\ Find(buf, JPEG_END, 2) = -1

\* Garbage and a whole frame have been read and taken out of the buffer,
\* which holds the beginning of the next frame.
C21_Witness ==
    /\ garbage # <<>>
    /\ published # <<>>
    /\ Len(buf) >= 3

\* ------------------------------------------------------------------------
\* CameraStream: encoder subprocess, capture worker, start() and stop()
\* ------------------------------------------------------------------------
\* What a live encoder writes next to its stdout, cut as the pipe delivers
\* it: a whole frame, or a frame in two reads (mid: the encoder is inside a
\* frame).
EncoderChunks(mid) ==
    IF mid
    THEN {[bytes |-> <<255, 217>>, mid |-> FALSE]}
    ELSE {[bytes |-> <<255, 216, 0, 255, 217>>, mid |-> FALSE],
          [bytes |-> <<255, 216, 216>>, mid |-> TRUE]}

\* The frame objects something still refers to once the slot holds f.
Live(f) == ({f} \cup {reader[g].ref : g \in Readers}) \ {0}

\* with self._lock: self._frame = frame; self._frame_id += 1
\* (camera.py:140-145), once for each frame of fs in order.  bytes(...) makes
\* a new object for every frame; the slot is pointed at it.
PublishInPlace(fs) ==
    IF fs = <<>>
    THEN UNCHANGED <<frame, frame_id, heap, npub, since_stop>>
    ELSE LET obj == IF frame = 0 THEN npub + Len(fs) ELSE frame IN
         /\ frame' = obj
         /\ frame_id' = frame_id + Len(fs)
         /\ npub' = npub + Len(fs)
         /\ heap' = [o \in Live(obj) |->
                        IF o = obj THEN fs[Len(fs)].bytes ELSE heap[o]]
         /\ since_stop' = IF since_stop = "restarted" THEN "no" ELSE since_stop

Publish(fs) ==
    IF fs = <<>>
    THEN UNCHANGED <<frame, frame_id, heap, npub, since_stop>>
    ELSE LET obj == npub + Len(fs) IN
         /\ frame' = obj
         /\ frame_id' = frame_id + Len(fs)
         /\ npub' = npub + Len(fs)
         /\ heap' = [o \in Live(obj) |->
                        IF o = obj THEN fs[Len(fs)].bytes ELSE heap[o]]
         /\ since_stop' = IF since_stop = "restarted" THEN "no" ELSE since_stop

\* The worker's record after one of its own steps.
Goto(w, pc) == worker' = [worker EXCEPT ![w].pc = pc]

\* The for-loop of _start_ffmpeg moving on after a failed attempt
\* (camera.py:61, 76-82): the software mode after the MJPEG mode, then
\* `return False`, on which _capture_loop continues (camera.py:112-113).
NextMode(w) ==
    IF worker[w].mode = "mjpeg"
    THEN worker' = [worker EXCEPT ![w].pc = "popen", ![w].mode = "soft"]
    ELSE worker' = [worker EXCEPT ![w].pc = "loop", ![w].mode = "none"]

\* self._process.terminate(); self._process.wait(timeout=5), escalated to
\* kill() (camera.py:86-93): the subprocess _process names now is dead
\* afterwards; with _process None the AttributeError is swallowed.
Terminate ==
    IF process = 0
    THEN procs' = procs
    ELSE procs' = [procs EXCEPT ![process].st = "exited"]

\* time.sleep(d / 10) on the capture worker: the time slept so far, when it
\* is being timed, counted up to MaxSlept.
Sleep(d) ==
    IF slept = -1 THEN -1
    ELSE IF slept + d > MaxSlept THEN MaxSlept ELSE slept + d

\* while self._running (camera.py:108)
WLoop(w) ==
    /\ worker[w].pc = "loop"
    /\ Goto(w, IF running THEN "check" ELSE "done")
    /\ UNCHANGED <<rvars, cvars, ovars, slept, calls, running, process, capture_thread, frame, frame_id, heap,
                   npub, procs, caller, reader, since_stop>>

\* self._process is None (camera.py:109, first operand)
WCheck(w) ==
    /\ worker[w].pc = "check"
    /\ Goto(w, IF process = 0 THEN "backoff" ELSE "poll")
    /\ UNCHANGED <<rvars, cvars, ovars, slept, calls, running, process, capture_thread, frame, frame_id, heap,
                   npub, procs, caller, reader, since_stop>>

\* self._process.poll() is not None (camera.py:109, second operand).  The
\* attribute is read again: if stop() has set it to None in between, the
\* AttributeError is raised outside any try and ends the thread.
WPoll(w) ==
    /\ worker[w].pc = "poll"
    /\ Goto(w, IF process = 0 THEN "crashed"
               ELSE IF procs[process].st = "alive" THEN "read"
               ELSE "backoff")
    /\ UNCHANGED <<rvars, cvars, ovars, slept, calls, running, process, capture_thread, frame, frame_id, heap,
                   npub, procs, caller, reader, since_stop>>

\* time.sleep(2), then _start_ffmpeg begins with _stop_ffmpeg
\* (camera.py:110-112, 54-55).
WBackoff(w) ==
    /\ worker[w].pc = "backoff"
    /\ worker' = [worker EXCEPT ![w].pc = "sf_test", ![w].ret = "exists"]
    /\ slept' = Sleep(20)
    /\ UNCHANGED <<rvars, cvars, ovars, calls, running, process, capture_thread, frame, frame_id, heap,
                   npub, procs, caller, reader, since_stop>>

\* _stop_ffmpeg: if self._process (camera.py:85)
WSfTest(w) ==
    /\ worker[w].pc = "sf_test"
    /\ IF process = 0
       THEN worker' = [worker EXCEPT ![w].pc = worker[w].ret, ![w].ret = "none"]
       ELSE Goto(w, "sf_term")
    /\ UNCHANGED <<rvars, cvars, ovars, slept, calls, running, process, capture_thread, frame, frame_id, heap,
                   npub, procs, caller, reader, since_stop>>

\* _stop_ffmpeg: terminate, wait, kill (camera.py:86-93)
WSfTerm(w) ==
    /\ worker[w].pc = "sf_term"
    /\ Terminate
    /\ Goto(w, "sf_clear")
    /\ UNCHANGED <<rvars, cvars, ovars, slept, calls, running, process, capture_thread, frame, frame_id, heap,
                   npub, caller, reader, since_stop>>

\* _stop_ffmpeg: self._process = None (camera.py:94)
WSfClear(w) ==
    /\ worker[w].pc = "sf_clear"
    /\ process' = 0
    /\ worker' = [worker EXCEPT ![w].pc = worker[w].ret, ![w].ret = "none"]
    /\ UNCHANGED <<rvars, cvars, ovars, slept, calls, running, capture_thread, frame, frame_id, heap, npub,
                   procs, caller, reader, since_stop>>

\* os.path.exists(self.device) (camera.py:57-59); the first mode tried is
\* try_mjpeg = True (camera.py:61).
WExists(w) ==
    /\ worker[w].pc = "exists"
    /\ \E present \in BOOLEAN :
          IF present
          THEN worker' = [worker EXCEPT ![w].pc = "popen", ![w].mode = "mjpeg"]
          ELSE worker' = [worker EXCEPT ![w].pc = "loop"]
    /\ UNCHANGED <<rvars, cvars, ovars, slept, calls, running, process, capture_thread, frame, frame_id, heap,
                   npub, procs, caller, reader, since_stop>>

\* self._process = subprocess.Popen(...) succeeds (camera.py:65-70)
WPopen(w) ==
    /\ worker[w].pc = "popen"
    /\ \E p \in ProcIds :
          /\ procs[p].st = "unborn"
          /\ \A q \in ProcIds : q < p => procs[q].st # "unborn"
          /\ procs' = [procs EXCEPT ![p] = [st |-> "alive",
                                            mode |-> worker[w].mode,
                                            mid |-> FALSE]]
          /\ process' = p
    /\ Goto(w, "grace")
    /\ UNCHANGED <<rvars, cvars, ovars, slept, calls, running, capture_thread, frame, frame_id, heap, npub,
                   caller, reader, since_stop>>

\* subprocess.Popen(...) raises (camera.py:79-80)
WPopenFails(w) ==
    /\ worker[w].pc = "popen"
    /\ NextMode(w)
    /\ UNCHANGED <<rvars, cvars, ovars, slept, calls, running, process, capture_thread, frame, frame_id, heap,
                   npub, procs, caller, reader, since_stop>>

\* time.sleep(0.5); if self._process.poll() is None: return True
\* (camera.py:71-80).  With _process None the AttributeError is caught by
\* the except of the loop body, like an immediate exit.
WGrace(w) ==
    /\ worker[w].pc = "grace"
    /\ IF process # 0 /\ procs[process].st = "alive"
       THEN worker' = [worker EXCEPT ![w].pc = "read", ![w].mode = "none"]
       ELSE NextMode(w)
    /\ slept' = Sleep(5)
    /\ UNCHANGED <<rvars, cvars, ovars, calls, running, process, capture_thread, frame, frame_id, heap,
                   npub, procs, caller, reader, since_stop>>

\* self._process.stdout.read(4096) is entered (camera.py:116): the pipe read
\* is the one of the subprocess _process names now; with _process None the
\* AttributeError is caught (camera.py:121-124).
WRead(w) ==
    /\ worker[w].pc = "read"
    /\ IF process = 0
       THEN worker' = [worker EXCEPT ![w].pc = "sf_test", ![w].ret = "loop"]
       ELSE worker' = [worker EXCEPT ![w].pc = "reading", ![w].rp = process]
    /\ UNCHANGED <<rvars, cvars, ovars, slept, calls, running, process, capture_thread, frame, frame_id, heap,
                   npub, procs, caller, reader, since_stop>>

\* The read returns a chunk; buf.extend(chunk) and the inner loop publish the
\* frames it completes (camera.py:116, 126-145).
WReadChunk(w) ==
    /\ worker[w].pc = "reading"
    /\ procs[worker[w].rp].st = "alive"
    /\ \E c \in EncoderChunks(procs[worker[w].rp].mid) :
          LET r == ProcessChunk(worker[w].buf, 0, c.bytes) IN
          /\ Len(worker[w].buf) + Len(c.bytes) <= MaxBuf
          /\ npub + Len(r.frames) <= MaxFrameId
          /\ Publish(r.frames)
          /\ worker' = [worker EXCEPT ![w].pc = "loop", ![w].rp = 0,
                                      ![w].buf = r.buf]
          /\ procs' = [procs EXCEPT ![worker[w].rp].mid = c.mid]
    /\ UNCHANGED <<rvars, cvars, ovars, slept, calls, running, process, capture_thread, caller, reader>>

\* The read returns b"" at the end of the output of an exited subprocess:
\* _stop_ffmpeg and continue (camera.py:117-120).
WReadEmpty(w) ==
    /\ worker[w].pc = "reading"
    /\ procs[worker[w].rp].st = "exited"
    /\ worker' = [worker EXCEPT ![w].pc = "sf_test", ![w].ret = "loop",
                                ![w].rp = 0]
    /\ UNCHANGED <<rvars, cvars, ovars, slept, calls, running, process, capture_thread, frame, frame_id, heap,
                   npub, procs, caller, reader, since_stop>>

\* The read raises: _stop_ffmpeg and continue (camera.py:121-124).
WReadRaises(w) ==
    /\ worker[w].pc = "reading"
    /\ procs[worker[w].rp].st = "alive"
    /\ worker' = [worker EXCEPT ![w].pc = "sf_test", ![w].ret = "loop",
                                ![w].rp = 0]
    /\ UNCHANGED <<rvars, cvars, ovars, slept, calls, running, process, capture_thread, frame, frame_id, heap,
                   npub, procs, caller, reader, since_stop>>

\* The encoder subprocess exits on its own.
ProcExit(p) ==
    /\ procs[p].st = "alive"
    /\ procs' = [procs EXCEPT ![p].st = "exited"]
    /\ UNCHANGED <<rvars, cvars, ovars, slept, calls, running, process, capture_thread, frame, frame_id, heap,
                   npub, worker, caller, reader, since_stop>>

WorkerStep(w) ==
    \/ WLoop(w) \/ WCheck(w) \/ WPoll(w) \/ WBackoff(w)
    \/ WSfTest(w) \/ WSfTerm(w) \/ WSfClear(w)
    \/ WExists(w) \/ WPopen(w) \/ WPopenFails(w) \/ WGrace(w)
    \/ WRead(w) \/ WReadChunk(w) \/ WReadEmpty(w) \/ WReadRaises(w)

\* start(): if self._running: return (camera.py:148-149)
StartCheck(c) ==
    /\ caller[c] = "idle"
    /\ calls < MaxCalls
    /\ calls' = calls + 1
    /\ ~running
    /\ caller' = [caller EXCEPT ![c] = "st_set"]
    /\ UNCHANGED <<rvars, cvars, ovars, slept, running, process, capture_thread, frame, frame_id, heap,
                   npub, procs, worker, reader, since_stop>>

\* start(): self._running = True (camera.py:150)
StartSet(c) ==
    /\ caller[c] = "st_set"
    /\ running' = TRUE
    /\ caller' = [caller EXCEPT ![c] = "st_spawn"]
    /\ since_stop' = IF since_stop = "stopped" THEN "restarted" ELSE since_stop
    /\ UNCHANGED <<rvars, cvars, ovars, slept, calls, process, capture_thread, frame, frame_id, heap, npub,
                   procs, worker, reader>>

\* start(): the thread is created, stored and started; start() returns
\* (camera.py:151-153).  The new thread begins _capture_loop with an empty
\* buffer (camera.py:106).
StartSpawn(c) ==
    /\ caller[c] = "st_spawn"
    /\ \E w \in WorkerIds :
          /\ worker[w].pc = "unborn"
          /\ \A v \in WorkerIds : v < w => worker[v].pc # "unborn"
          /\ worker' = [worker EXCEPT ![w].pc = "loop"]
          /\ capture_thread' = w
    /\ caller' = [caller EXCEPT ![c] = "idle"]
    /\ UNCHANGED <<rvars, cvars, ovars, slept, calls, running, process, frame, frame_id, heap, npub, procs,
                   reader, since_stop>>

\* stop(): self._running = False (camera.py:156)
StopSet(c) ==
    /\ caller[c] = "idle"
    /\ calls < MaxCalls
    /\ calls' = calls + 1
    /\ running' = FALSE
    /\ caller' = [caller EXCEPT ![c] = "sf_test"]
    /\ UNCHANGED <<rvars, cvars, ovars, slept, process, capture_thread, frame, frame_id, heap, npub,
                   procs, worker, reader, since_stop>>

\* stop(): _stop_ffmpeg: if self._process (camera.py:157, 85)
StopSfTest(c) ==
    /\ caller[c] = "sf_test"
    /\ caller' = [caller EXCEPT ![c] = IF process = 0 THEN "join" ELSE "sf_term"]
    /\ UNCHANGED <<rvars, cvars, ovars, slept, calls, running, process, capture_thread, frame, frame_id, heap,
                   npub, procs, worker, reader, since_stop>>

\* stop(): _stop_ffmpeg: terminate, wait, kill (camera.py:86-93)
StopSfTerm(c) ==
    /\ caller[c] = "sf_term"
    /\ Terminate
    /\ caller' = [caller EXCEPT ![c] = "sf_clear"]
    /\ UNCHANGED <<rvars, cvars, ovars, slept, calls, running, process, capture_thread, frame, frame_id, heap,
                   npub, worker, reader, since_stop>>

\* stop(): _stop_ffmpeg: self._process = None (camera.py:94)
StopSfClear(c) ==
    /\ caller[c] = "sf_clear"
    /\ process' = 0
    /\ caller' = [caller EXCEPT ![c] = "join"]
    /\ UNCHANGED <<rvars, cvars, ovars, slept, calls, running, capture_thread, frame, frame_id, heap, npub,
                   procs, worker, reader, since_stop>>

\* What stop() leaves behind when it returns (camera.py:158-160): nothing of
\* the frame slot is touched.
StopReturn(c) ==
    /\ caller' = [caller EXCEPT ![c] = "idle"]
    /\ since_stop' = IF running THEN since_stop ELSE "stopped"
    /\ UNCHANGED <<rvars, cvars, ovars, slept, calls, running, process, capture_thread, frame, frame_id, heap,
                   npub, procs, worker, reader>>

\* stop(): there is no thread, or join() returns because the thread has
\* ended (camera.py:158-159).
StopJoined(c) ==
    /\ caller[c] = "join"
    /\ \/ capture_thread = 0
       \/ /\ capture_thread # 0
          /\ worker[capture_thread].pc \in {"done", "crashed"}
    /\ StopReturn(c)

\* stop(): join(timeout=5) gives up on a thread that is still running.
StopJoinTimeout(c) ==
    /\ caller[c] = "join"
    /\ capture_thread # 0
    /\ worker[capture_thread].pc \notin {"done", "crashed"}
    /\ StopReturn(c)

CallerStep(c) ==
    \/ StartCheck(c) \/ StartSet(c) \/ StartSpawn(c)
    \/ StopSet(c) \/ StopSfTest(c) \/ StopSfTerm(c) \/ StopSfClear(c)
    \/ StopJoined(c) \/ StopJoinTimeout(c)

\* The frame objects held by the generators other than g.
HeldBesides(g) == {reader[h].ref : h \in Readers \ {g}} \ {0}

\* generate_mjpeg, one pass of its loop that leaves last_id as it is.
GenPoll_KeepLastId(g) ==
    /\ IF frame # 0 /\ frame_id # reader[g].last_id
       THEN /\ reader' = [reader EXCEPT ![g] =
                            [last_id |-> reader[g].last_id,
                             ref |-> frame,
                             yid |-> frame_id,
                             prev_yid |-> reader[g].yid,
                             obs |-> frame_id]]
            /\ heap' = [o \in HeldBesides(g) \cup {frame} |-> heap[o]]
       ELSE /\ reader' = [reader EXCEPT ![g].obs = frame_id]
            /\ heap' = heap
    /\ UNCHANGED <<rvars, cvars, ovars, slept, calls, running, process, capture_thread,
                   frame, frame_id, npub, procs, worker, caller, since_stop>>

\* generate_mjpeg, one pass of its loop (camera.py:168-185): under the lock,
\* take the frame and its sequence number if the slot holds a frame whose
\* number differs from last_id, and yield it; else sleep 50 ms and poll
\* again.  The objects no generator holds any more are dropped from heap.
GenPoll(g) ==
    /\ IF frame # 0 /\ frame_id # reader[g].last_id
       THEN /\ reader' = [reader EXCEPT ![g] =
                            [last_id |-> frame_id,
                             ref |-> frame,
                             yid |-> frame_id,
                             prev_yid |-> reader[g].yid,
                             obs |-> frame_id]]
            /\ heap' = [o \in HeldBesides(g) \cup {frame} |-> heap[o]]
       ELSE /\ reader' = [reader EXCEPT ![g].obs = frame_id]
            /\ heap' = heap
    /\ UNCHANGED <<rvars, cvars, ovars, slept, calls, running, process, capture_thread,
                   frame, frame_id, npub, procs, worker, caller, since_stop>>

Init ==
    /\ CameraConstructed
    /\ ReassemblyIdle
    /\ CounterIdle
    /\ DetectorIdle
    /\ BlobIdle

Next ==
    \/ \E w \in WorkerIds : WorkerStep(w)
    \/ \E p \in ProcIds : ProcExit(p)
    \/ \E c \in Callers : CallerStep(c)

Spec == Init /\ [][Next]_vars

\* The CameraStream once start() has returned (camera.py:147-153): the
\* state Spec reaches by StartCheck, StartSet, StartSpawn.
CameraStarted ==
    /\ running = TRUE
    /\ process = 0
    /\ capture_thread = 1
    /\ frame = 0
    /\ frame_id = 0
    /\ heap = <<>>
    /\ npub = 0
    /\ procs = [p \in ProcIds |-> NoProc]
    /\ worker = [w \in WorkerIds |->
                    IF w = 1 THEN [NoWorker EXCEPT !.pc = "loop"] ELSE NoWorker]
    /\ caller = [c \in Callers |-> "idle"]
    /\ reader = [g \in Readers |-> NewReader]
    /\ since_stop = "no"
    /\ calls = 1

InitSlot ==
    /\ CameraStarted
    /\ slept = -1
    /\ DetectorIdle
    /\ BlobIdle
    /\ ReassemblyIdle
    /\ CounterIdle

\* The capture worker publishing while the generators poll the slot.
NextSlot ==
    \/ \E w \in WorkerIds : WorkerStep(w)
    \/ \E p \in ProcIds : ProcExit(p)
    \/ \E g \in Readers : GenPoll(g)

SpecSlot == InitSlot /\ [][NextSlot]_vars

\* The frames one encoder subprocess writes, whole: every run of bytes of
\* its output from a start marker to the next end marker is one of them.
EncoderFrames ==
    {c.bytes : c \in {d \in EncoderChunks(FALSE) : ~d.mid}}
       \cup {c.bytes \o e.bytes :
                c \in {d \in EncoderChunks(FALSE) : d.mid},
                e \in EncoderChunks(TRUE)}

\* C35: every published frame is a run of bytes of the output of a single
\* encoder subprocess; what the buffer held of the output of a subprocess
\* that stopped is part of no frame published after the restart.
C35_NoMixedFrame ==
    \A o \in DOMAIN heap : heap[o] \in EncoderFrames

\* The threads executing _capture_loop.
Executing == {w \in WorkerIds : worker[w].pc \notin {"unborn", "done", "crashed"}}

AliveProcs == {p \in ProcIds : procs[p].st = "alive"}

\* ------------------------------------------------------------------------
\* Claims on the frame slot and its readers (SpecSlot)
\* ------------------------------------------------------------------------
\* C3: whatever the interleaving of publishes and polls, the sequence number
\* a generator sees under the lock never goes down, and the bytes of a frame
\* object a generator holds never change while it holds it.
C3_MonotoneAndImmutable ==
    [][\A g \in Readers :
          /\ reader'[g].obs >= reader[g].obs
          /\ (reader[g].ref # 0 /\ reader'[g].ref = reader[g].ref)
                => heap'[reader[g].ref] = heap[reader[g].ref]]_vars

\* A generator holds a frame that a later publish has replaced in the slot
\* by a frame of other bytes, while another generator holds the new one.
C3_Witness ==
    \E g \in Readers, h \in Readers :
        /\ reader[g].ref # 0
        /\ frame # reader[g].ref
        /\ frame_id > reader[g].obs
        /\ heap[frame] # heap[reader[g].ref]
        /\ reader[h].ref = frame

\* C4: each frame a generator yields has a sequence number strictly greater
\* than the one it yielded before (so none is yielded twice and a poll that
\* finds no newer frame yields nothing); what it yields is what the slot
\* held, and frames may be skipped.
C4_StrictlyIncreasing ==
    \A g \in Readers :
        /\ reader[g].yid = -1 => reader[g].prev_yid = -1
        /\ reader[g].yid # -1 =>
              /\ reader[g].yid > reader[g].prev_yid
              /\ reader[g].yid <= frame_id
              /\ reader[g].yid = reader[g].last_id
              /\ reader[g].ref # 0

\* One generator has yielded frames 1 and 2, another has skipped frame 1.
C4_Witness ==
    \E g \in Readers, h \in Readers :
        /\ reader[g].prev_yid = 1 /\ reader[g].yid = 2
        /\ reader[h].prev_yid = -1 /\ reader[h].yid = 2

\* ------------------------------------------------------------------------
\* Claims on start(), stop() and the capture worker (Spec)
\* ------------------------------------------------------------------------
\* C7: whatever the interleaving of start() and stop() calls, at most one
\* thread is executing _capture_loop.
C7_AtMostOneWorker == Cardinality(Executing) <= 1

\* C8: from the return of stop() until a frame is published after a later
\* start(), the slot is empty: get_frame() returns None.
C8_ClearedAfterStop ==
    since_stop \in {"stopped", "restarted"} => frame = 0

\* C9: once stop() has returned (and no start() has been called since) and
\* no thread is executing _capture_loop, _process is None and no encoder
\* subprocess is alive.
C9_NoSubprocessAfterStop ==
    (/\ since_stop = "stopped"
     /\ \A c \in Callers : caller[c] = "idle"
     /\ Executing = {})
        => (process = 0 /\ AliveProcs = {})

\* ------------------------------------------------------------------------
\* Claims on the frame slot while the encoder is down (SpecSlot)
\* ------------------------------------------------------------------------
\* The worker has found the subprocess absent or exited, or a read empty or
\* failing, and has not yet got a launched subprocess past the grace period.
Recovering(w) ==
    \/ worker[w].pc \in {"backoff", "exists", "popen", "grace"}
    \/ worker[w].pc \in {"sf_test", "sf_term", "sf_clear"}

\* C11: during warm-up and while the worker is recovering from a subprocess
\* failure, the slot is empty: get_frame() returns None, not a frame
\* published before the failure.
C11_NoStaleFrame ==
    \A w \in WorkerIds : Recovering(w) => frame = 0

\* ------------------------------------------------------------------------
\* Claims on the launch of the encoder subprocess (Spec)
\* ------------------------------------------------------------------------
\* The worker is about to launch the software-encoded mode.
AtFallback(w) == worker[w].pc = "popen" /\ worker[w].mode = "soft"

\* C19: the software-encoded mode is launched only after the preferred
\* attempt raised (no subprocess) or its process has exited, so never while
\* the preferred process is alive; and at most one encoder subprocess is
\* alive at any time.
C19_LaunchOrder ==
    /\ \A w \in WorkerIds :
          AtFallback(w) => (process = 0 \/ procs[process].st = "exited")
    /\ \A w \in WorkerIds : AtFallback(w) => AliveProcs = {}
    /\ Cardinality(AliveProcs) <= 1

\* ------------------------------------------------------------------------
\* Claims on automatic recovery (Spec)
\* ------------------------------------------------------------------------
\* C20: while the CameraStream is running no capture worker is ended by an
\* exception raised out of _capture_loop, whatever fails (subprocess absent
\* or exited, empty read, failing read, failing launch).
C20_WorkerSurvives ==
    running => \A w \in WorkerIds : worker[w].pc # "crashed"

\* The scheduler lets the one capture worker of a started CameraStream run.
FairSlot == SpecSlot /\ \A w \in WorkerIds : WF_vars(WorkerStep(w))

\* With one worker and no stop(): the worker never ends, and from every
\* failure it comes back to a launch attempt in _start_ffmpeg.
C20_RecoversSingleWorker ==
    /\ [](worker[1].pc \notin {"done", "crashed"})
    /\ (worker[1].pc = "backoff") ~> (worker[1].pc = "exists")
    /\ (worker[1].pc = "sf_test" /\ worker[1].ret = "loop")
           ~> (worker[1].pc = "exists")

\* ------------------------------------------------------------------------
\* The first frame after start(), timed (SpecTimed)
\* ------------------------------------------------------------------------
\* start() has just returned and a stopwatch is started.
InitTimed ==
    /\ CameraStarted
    /\ slept = 0
    /\ ReassemblyIdle
    /\ CounterIdle
    /\ DetectorIdle
    /\ BlobIdle

NextTimed ==
    \/ \E w \in WorkerIds : WorkerStep(w)
    \/ \E p \in ProcIds : ProcExit(p)

SpecTimed == InitTimed /\ [][NextTimed]_vars

\* Nothing has failed so far: no launch has raised, no subprocess has exited
\* and the only subprocess launched, if any, runs in the preferred mode.
EncoderHealthy ==
    /\ \A p \in ProcIds : procs[p].st # "exited" /\ procs[p].mode # "soft"
    /\ \A w \in WorkerIds : worker[w].mode # "soft"
    /\ procs[2].st = "unborn"

\* C14: with an encoder that launches in the preferred mode and delivers a
\* frame every 100 ms, a frame is in the slot by the time one second has
\* passed since start() (the worker alone has slept that long).
C14_FrameWithinOneSecond ==
    (slept >= 10 /\ EncoderHealthy) => frame # 0

\* ------------------------------------------------------------------------
\* CarDetector: the detection worker (car_detector.py:227-268)
\* ------------------------------------------------------------------------
MaxDCycles == 3
MaxDCalls == 4

\* The images the encoder delivers to the detector: the empty road, a
\* vehicle on the road, the empty road in a frame of another size, and a
\* frame with no image data between its markers.
TestImages == {<<255, 216, 0, 255, 217>>, <<255, 216, 216, 255, 217>>,
               <<255, 216, 0, 0, 255, 217>>, <<255, 216, 255, 217>>}

\* Image.open(io.BytesIO(frame_jpeg)) (car_detector.py:275): the scene a
\* frame shows, "bad" when it cannot be decoded (Image.open raises).
Decode(fj) ==
    LET payload == SubSeq(fj, 3, Len(fj) - 2) IN
    IF payload = <<0>> THEN "road"
    ELSE IF payload = <<216>> THEN "car"
    ELSE IF payload = <<0, 0>> THEN "road_wide"
    ELSE "bad"

\* roi.shape (car_detector.py:279-281): the ROI is a fixed fraction of the
\* frame, so its shape follows the size of the decoded image.
ShapeOf(img) == IF img = "road_wide" THEN "wide" ELSE "normal"

\* The capture worker publishes one more frame (camera.py:140-145).
SourcePublishes ==
    /\ npub < MaxFrameId
    /\ \E img \in TestImages : Publish(<<[at |-> 0, bytes |-> img]>>)
    /\ d_hist' = [d_hist EXCEPT !.yielded = {}]
    /\ UNCHANGED <<rvars, cvars, bvars, running, process, capture_thread,
                   procs, worker, caller, reader, calls, slept>>
    /\ UNCHANGED <<d_running, d_thread, counting_enabled, highlight_enabled,
                   bg_frame, motion_box, overlay_frame, overlay_frame_id,
                   dworker, dcaller, viewer, srv>>

\* The variables no step of the detection worker touches.
DRest == <<rvars, camvars, bvars, d_running, d_thread, counting_enabled,
           highlight_enabled, dcaller, viewer, srv>>

DGoto(w, pc) == dworker' = [dworker EXCEPT ![w].pc = pc]

\* while self._running (car_detector.py:230)
DLoop(w) ==
    /\ dworker[w].pc = "loop"
    /\ DGoto(w, IF d_running THEN "modes" ELSE "done")
    /\ UNCHANGED <<DRest, cvars, bg_frame, motion_box, overlay_frame,
                   overlay_frame_id, d_hist>>

\* if not counting and not highlight: sleep(0.5); continue
\* (car_detector.py:231-233)
DModes(w) ==
    /\ dworker[w].pc = "modes"
    /\ DGoto(w, IF ~counting_enabled /\ ~highlight_enabled THEN "loop"
                ELSE "get")
    /\ UNCHANGED <<DRest, cvars, bg_frame, motion_box, overlay_frame,
                   overlay_frame_id, d_hist>>

\* frame_jpeg = self._camera.get_frame(); None: sleep(0.5); continue
\* (car_detector.py:235-238, camera.py:162-164)
DGet(w) ==
    /\ dworker[w].pc = "get"
    /\ IF frame = 0
       THEN DGoto(w, "loop")
       ELSE dworker' = [dworker EXCEPT ![w].pc = "detect",
                                       ![w].fj = heap[frame],
                                       ![w].fid = frame]
    /\ UNCHANGED <<DRest, cvars, bg_frame, motion_box, overlay_frame,
                   overlay_frame_id, d_hist>>

\* _detect_motion called outside the try block: its exception ends the thread.
DDetect_NoTry(w) ==
    /\ dworker[w].pc = "detect"
    /\ d_hist.cycles < MaxDCycles
    /\ LET img == Decode(dworker[w].fj) IN
       IF img = "bad"
       THEN /\ DGoto(w, "crashed")
            /\ UNCHANGED bg_frame
       ELSE IF bg_frame = "none" \/ ShapeOf(bg_frame) # ShapeOf(img)
       THEN /\ bg_frame' = img
            /\ dworker' = [dworker EXCEPT ![w].pc = "store",
                                          ![w].detected = FALSE,
                                          ![w].box = "none"]
       ELSE /\ UNCHANGED bg_frame
            /\ dworker' = [dworker EXCEPT
                              ![w].pc = "store",
                              ![w].detected = (img # bg_frame),
                              ![w].box = IF img # bg_frame THEN "box"
                                         ELSE "none"]
    /\ d_hist' = [d_hist EXCEPT !.cycles = d_hist.cycles + 1]
    /\ UNCHANGED <<DRest, cvars, motion_box, overlay_frame, overlay_frame_id>>

\* _detect_motion with the shape test of line 284 left out: only a missing
\* background is replaced.
DDetect_NoShapeTest(w) ==
    /\ dworker[w].pc = "detect"
    /\ d_hist.cycles < MaxDCycles
    /\ LET img == Decode(dworker[w].fj) IN
       IF img = "bad"
       THEN /\ DGoto(w, "caught")
            /\ UNCHANGED bg_frame
       ELSE IF bg_frame = "none"
       THEN /\ bg_frame' = img
            /\ dworker' = [dworker EXCEPT ![w].pc = "store",
                                          ![w].detected = FALSE,
                                          ![w].box = "none"]
       ELSE /\ UNCHANGED bg_frame
            /\ dworker' = [dworker EXCEPT
                              ![w].pc = "store",
                              ![w].detected = (img # bg_frame),
                              ![w].box = IF img # bg_frame THEN "box"
                                         ELSE "none"]
    /\ d_hist' = [d_hist EXCEPT !.cycles = d_hist.cycles + 1]
    /\ UNCHANGED <<DRest, cvars, motion_box, overlay_frame, overlay_frame_id>>

\* try: result = self._detect_motion(frame_jpeg) ... except Exception:
\* sleep(1); continue (car_detector.py:240-246).  _detect_motion
\* (car_detector.py:270-328): an undecodable frame raises at line 275 before
\* anything is touched; with no background yet, or one of another shape, the
\* frame becomes the background and nothing is detected (lines 284-286);
\* otherwise a vehicle is detected when the scene differs from the
\* background, which the slow update of lines 316-320 leaves as it is over
\* these few cycles.
DDetect(w) ==
    /\ dworker[w].pc = "detect"
    /\ d_hist.cycles < MaxDCycles
    /\ LET img == Decode(dworker[w].fj) IN
       IF img = "bad"
       THEN /\ DGoto(w, "caught")
            /\ UNCHANGED bg_frame
       ELSE IF bg_frame = "none" \/ ShapeOf(bg_frame) # ShapeOf(img)
       THEN /\ bg_frame' = img
            /\ dworker' = [dworker EXCEPT ![w].pc = "store",
                                          ![w].detected = FALSE,
                                          ![w].box = "none"]
       ELSE /\ UNCHANGED bg_frame
            /\ dworker' = [dworker EXCEPT
                              ![w].pc = "store",
                              ![w].detected = (img # bg_frame),
                              ![w].box = IF img # bg_frame THEN "box"
                                         ELSE "none"]
    /\ d_hist' = [d_hist EXCEPT !.cycles = d_hist.cycles + 1]
    /\ UNCHANGED <<DRest, cvars, motion_box, overlay_frame, overlay_frame_id>>

\* except Exception: log.exception(...); time.sleep(1); continue
\* (car_detector.py:243-246)
DCaught(w) ==
    /\ dworker[w].pc = "caught"
    /\ DGoto(w, "loop")
    /\ UNCHANGED <<DRest, cvars, bg_frame, motion_box, overlay_frame,
                   overlay_frame_id, d_hist>>

\* with self._lock: self._motion_box = motion_box (car_detector.py:248-250)
DStore(w) ==
    /\ dworker[w].pc = "store"
    /\ motion_box' = dworker[w].box
    /\ DGoto(w, "count")
    /\ UNCHANGED <<DRest, cvars, bg_frame, overlay_frame, overlay_frame_id,
                   d_hist>>

\* The counting step with the test of self._counting_enabled left out.
DCount_Ungated(w) ==
    /\ dworker[w].pc = "count"
    /\ \E cb_raises \in BOOLEAN :
          update_count(dworker[w].detected, cb_raises)
    /\ d_hist' = [d_hist EXCEPT !.counted_on = dworker[w].fid]
    /\ DGoto(w, IF Len(cb_calls') > Len(cb_calls) THEN "callback"
                ELSE "overlay")
    /\ UNCHANGED <<on_car_counted, detect_worker, log>>
    /\ UNCHANGED <<DRest, bg_frame, motion_box, overlay_frame,
                   overlay_frame_id>>

\* if self._counting_enabled: self._update_count(detected)
\* (car_detector.py:252-253).  When the count-changed callback is called the
\* worker is inside it until it returns or raises.
DCount(w) ==
    /\ dworker[w].pc = "count"
    /\ IF counting_enabled
       THEN /\ \E cb_raises \in BOOLEAN :
                  update_count(dworker[w].detected, cb_raises)
            /\ d_hist' = [d_hist EXCEPT !.counted_on = dworker[w].fid]
            /\ DGoto(w, IF Len(cb_calls') > Len(cb_calls) THEN "callback"
                        ELSE "overlay")
            /\ UNCHANGED <<on_car_counted, detect_worker, log>>
       ELSE /\ DGoto(w, "overlay")
            /\ UNCHANGED <<cvars, d_hist>>
    /\ UNCHANGED <<DRest, bg_frame, motion_box, overlay_frame,
                   overlay_frame_id>>

\* self._on_car_counted(self._car_count) returns, or raises and is caught
\* (car_detector.py:384-387).
DCallbackReturns(w) ==
    /\ dworker[w].pc = "callback"
    /\ DGoto(w, "overlay")
    /\ UNCHANGED <<DRest, cvars, bg_frame, motion_box, overlay_frame,
                   overlay_frame_id, d_hist>>

\* if self._highlight_enabled: (car_detector.py:255), read without the lock;
\* when it is off the cycle ends with sleep(0.3) (car_detector.py:266).
DOverlay(w) ==
    /\ dworker[w].pc = "overlay"
    /\ DGoto(w, IF highlight_enabled THEN "draw" ELSE "loop")
    /\ UNCHANGED <<DRest, cvars, bg_frame, motion_box, overlay_frame,
                   overlay_frame_id, d_hist>>

\* try: overlay = self._draw_overlay(...); with self._lock:
\* self._overlay_frame = overlay; self._overlay_frame_id += 1; except
\* Exception: log; then sleep(0.3) (car_detector.py:256-266).  The flag read
\* at line 255 is not read again.
DDraw(w) ==
    /\ dworker[w].pc = "draw"
    /\ \E drawn \in BOOLEAN :
          IF drawn
          THEN /\ overlay_frame' = overlay_frame_id + 1
               /\ overlay_frame_id' = overlay_frame_id + 1
               /\ d_hist' = [d_hist EXCEPT !.yielded = {}]
          ELSE UNCHANGED <<overlay_frame, overlay_frame_id, d_hist>>
    /\ DGoto(w, "loop")
    /\ UNCHANGED <<DRest, cvars, bg_frame, motion_box>>

DWorkerStep(w) ==
    \/ DLoop(w) \/ DModes(w) \/ DGet(w) \/ DDetect(w) \/ DCaught(w)
    \/ DStore(w)
    \/ DCount(w) \/ DCallbackReturns(w) \/ DOverlay(w) \/ DDraw(w)

\* ------------------------------------------------------------------------
\* CarDetector: the calls of the request layer (car_detector.py:73-100)
\* ------------------------------------------------------------------------
\* The variables no call into the detector touches.
DCallRest == <<rvars, cvars, camvars, bvars, overlay_frame_id, viewer, srv>>

Called == [d_hist EXCEPT !.calls = d_hist.calls + 1]

\* set_counting(enabled) (car_detector.py:93-94)
DSetCounting(enabled) ==
    /\ dcaller = "idle"
    /\ d_hist.calls < MaxDCalls
    /\ counting_enabled' = enabled
    /\ d_hist' = Called
    /\ UNCHANGED <<DCallRest, d_running, d_thread, highlight_enabled,
                   bg_frame, motion_box, overlay_frame, dworker, dcaller>>

\* set_highlight(enabled) (car_detector.py:96-100)
DSetHighlight(enabled) ==
    /\ dcaller = "idle"
    /\ d_hist.calls < MaxDCalls
    /\ highlight_enabled' = enabled
    /\ overlay_frame' = IF enabled THEN overlay_frame ELSE 0
    /\ d_hist' = Called
    /\ UNCHANGED <<DCallRest, d_running, d_thread, counting_enabled,
                   bg_frame, motion_box, dworker, dcaller>>

\* start(): not running, so self._running = True; self._bg_frame = None
\* (car_detector.py:74-77)
DStartSet ==
    /\ dcaller = "idle"
    /\ d_hist.calls < MaxDCalls
    /\ ~d_running
    /\ \E w \in DWorkerIds : dworker[w].pc = "unborn"
    /\ d_running' = TRUE
    /\ bg_frame' = "none"
    /\ dcaller' = "st_spawn"
    /\ d_hist' = [Called EXCEPT !.stopped = FALSE]
    /\ UNCHANGED <<DCallRest, d_thread, counting_enabled, highlight_enabled,
                   motion_box, overlay_frame, dworker>>

\* start(): the thread is created, stored and started (car_detector.py:78-80)
DStartSpawn ==
    /\ dcaller = "st_spawn"
    /\ \E w \in DWorkerIds :
          /\ dworker[w].pc = "unborn"
          /\ \A v \in DWorkerIds : v < w => dworker[v].pc # "unborn"
          /\ dworker' = [dworker EXCEPT ![w].pc = "loop"]
          /\ d_thread' = w
    /\ dcaller' = "idle"
    /\ UNCHANGED <<DCallRest, d_running, counting_enabled, highlight_enabled,
                   bg_frame, motion_box, overlay_frame, d_hist>>

\* stop(): self._running = False (car_detector.py:83)
DStopSet ==
    /\ dcaller = "idle"
    /\ d_hist.calls < MaxDCalls
    /\ d_running' = FALSE
    /\ dcaller' = "join"
    /\ d_hist' = Called
    /\ UNCHANGED <<DCallRest, d_thread, counting_enabled, highlight_enabled,
                   bg_frame, motion_box, overlay_frame, dworker>>

\* stop(): there is no thread, or join() returns because the thread has
\* ended; self._thread = None (car_detector.py:84-86)
DStopJoined ==
    /\ dcaller = "join"
    /\ \/ d_thread = 0
       \/ /\ d_thread # 0
          /\ dworker[d_thread].pc \in {"done", "crashed"}
    /\ d_thread' = 0
    /\ dcaller' = "clear"
    /\ UNCHANGED <<DCallRest, d_running, counting_enabled, highlight_enabled,
                   bg_frame, motion_box, overlay_frame, dworker, d_hist>>

\* stop(): join(timeout=5) gives up (car_detector.py:85-86).  The sleeps of
\* a cycle are of 1 s at most; the one call of a cycle whose duration the
\* detector does not bound is the count-changed callback (a database write,
\* server.py:413), so the join expires on a worker held up in it.
DStopJoinTimeout ==
    /\ dcaller = "join"
    /\ d_thread # 0
    /\ dworker[d_thread].pc = "callback"
    /\ d_thread' = 0
    /\ dcaller' = "clear"
    /\ UNCHANGED <<DCallRest, d_running, counting_enabled, highlight_enabled,
                   bg_frame, motion_box, overlay_frame, dworker, d_hist>>

\* stop(): self._bg_frame = None; with self._lock: self._overlay_frame =
\* None; self._motion_box = None; stop() returns (car_detector.py:87-91)
DStopClear ==
    /\ dcaller = "clear"
    /\ bg_frame' = "none"
    /\ overlay_frame' = 0
    /\ motion_box' = "none"
    /\ dcaller' = "idle"
    /\ d_hist' = [d_hist EXCEPT !.stopped = TRUE]
    /\ UNCHANGED <<DCallRest, d_running, d_thread, counting_enabled,
                   highlight_enabled, dworker>>

DCallerStep ==
    \/ \E b \in BOOLEAN : DSetCounting(b)
    \/ \E b \in BOOLEAN : DSetHighlight(b)
    \/ DStartSet \/ DStartSpawn
    \/ DStopSet \/ DStopJoined \/ DStopJoinTimeout \/ DStopClear

\* ------------------------------------------------------------------------
\* CarDetector.generate_mjpeg (car_detector.py:420-448)
\* ------------------------------------------------------------------------
\* The variables the generator never touches.
VRest == <<rvars, cvars, camvars, bvars, d_running, d_thread,
           counting_enabled, highlight_enabled, bg_frame, motion_box,
           overlay_frame, overlay_frame_id, dworker, dcaller, srv>>

\* d_hist once the generator has yielded the frame it.
Yielded(it) ==
    [d_hist EXCEPT !.yielded = d_hist.yielded \cup {it},
                   !.dup = d_hist.dup \/ (it \in d_hist.yielded)]

\* with self._lock: the overlay, if there is one of a version other than
\* last_overlay_id, is taken and yielded (car_detector.py:424-432, 441-448)
VOverlay ==
    /\ viewer.pc = "overlay"
    /\ IF overlay_frame # 0 /\ overlay_frame_id # viewer.last_overlay_id
       THEN /\ viewer' = [pc |-> "overlay",
                          last_overlay_id |-> overlay_frame_id,
                          item |-> <<"overlay", overlay_frame>>]
            /\ d_hist' = Yielded(<<"overlay", overlay_frame>>)
       ELSE /\ viewer' = [viewer EXCEPT !.pc = "raw"]
            /\ UNCHANGED d_hist
    /\ UNCHANGED VRest

\* if frame is None: frame = self._camera.get_frame(); still None: sleep and
\* poll again, else yield it (car_detector.py:434-448)
VRaw ==
    /\ viewer.pc = "raw"
    /\ IF frame = 0
       THEN /\ viewer' = [viewer EXCEPT !.pc = "overlay"]
            /\ UNCHANGED d_hist
       ELSE /\ viewer' = [viewer EXCEPT !.pc = "overlay",
                                        !.item = <<"raw", frame>>]
            /\ d_hist' = Yielded(<<"raw", frame>>)
    /\ UNCHANGED VRest

\* ------------------------------------------------------------------------
\* The detector beside a started CameraStream (SpecDetector)
\* ------------------------------------------------------------------------
\* server.py:406-413: the camera is started, the detector constructed and the
\* count-changed callback registered.
InitDetector ==
    /\ CameraStarted
    /\ slept = -1
    /\ ReassemblyIdle
    /\ CounterConstructed
    /\ on_car_counted = TRUE
    /\ DetectorConstructed
    /\ BlobIdle

NextDetector ==
    \/ SourcePublishes
    \/ \E w \in DWorkerIds : DWorkerStep(w)
    \/ DCallerStep

SpecDetector == InitDetector /\ [][NextDetector]_vars

\* The scheduler lets every detection worker run.
FairDetector ==
    SpecDetector /\ \A w \in DWorkerIds : WF_vars(DWorkerStep(w))

\* ------------------------------------------------------------------------
\* A preview generator beside the running detector (SpecViewer)
\* ------------------------------------------------------------------------
\* set_counting(True), set_highlight(True) and start() have returned
\* (server.py:317-320, 333-335) and a client has opened the motion stream.
InitViewer ==
    /\ CameraStarted
    /\ slept = -1
    /\ ReassemblyIdle
    /\ CounterConstructed
    /\ on_car_counted = TRUE
    /\ d_running = TRUE
    /\ d_thread = 1
    /\ counting_enabled = TRUE
    /\ highlight_enabled = TRUE
    /\ bg_frame = "none"
    /\ motion_box = "none"
    /\ overlay_frame = 0
    /\ overlay_frame_id = 0
    /\ dworker = [w \in DWorkerIds |->
                     IF w = 1 THEN [NoDWorker EXCEPT !.pc = "loop"]
                     ELSE NoDWorker]
    /\ dcaller = "idle"
    /\ viewer = NewViewer
    /\ d_hist = [counted_on |-> 0, cycles |-> 0, calls |-> 3,
                 stopped |-> FALSE, yielded |-> {}, dup |-> FALSE]
    /\ srv = Stored(TRUE, TRUE)
    /\ BlobIdle

NextViewer ==
    \/ SourcePublishes
    \/ \E w \in DWorkerIds : DWorkerStep(w)
    \/ VOverlay
    \/ VRaw

SpecViewer == InitViewer /\ [][NextViewer]_vars

\* ------------------------------------------------------------------------
\* One detection worker under switched flags (SpecGated)
\* ------------------------------------------------------------------------
\* frame_jpeg = self._camera.get_frame() and result =
\* self._detect_motion(frame_jpeg) (car_detector.py:235-246): the cycle is
\* skipped when there is no frame or the detection raises; a detection that
\* is executed finds a blob or none, whatever the scene, and is entered in
\* log.
GDetect(w) ==
    /\ dworker[w].pc = "get"
    /\ \E outcome \in {"skipped", "found", "nothing"} :
          IF outcome = "skipped"
          THEN /\ DGoto(w, "loop")
               /\ UNCHANGED <<log, d_hist>>
          ELSE /\ d_hist.cycles < MaxDCycles
               /\ dworker' = [dworker EXCEPT
                                 ![w].pc = "store",
                                 ![w].detected = (outcome = "found"),
                                 ![w].box = IF outcome = "found" THEN "box"
                                            ELSE "none"]
               /\ log' = Append(log, [detected |-> (outcome = "found")])
               /\ d_hist' = [d_hist EXCEPT !.cycles = d_hist.cycles + 1]
    /\ UNCHANGED <<car_present, detect_streak, clear_streak, car_count,
                   on_car_counted, cb_calls, escaped, detect_worker>>
    /\ UNCHANGED <<DRest, bg_frame, motion_box, overlay_frame,
                   overlay_frame_id>>

\* set_counting(True), set_highlight(True) and start() have returned
\* (server.py:317-320, 333-335) and the worker has taken its first frame as
\* the background; cycles and calls are counted from here on.
InitGated ==
    /\ CameraStarted
    /\ slept = -1
    /\ ReassemblyIdle
    /\ CounterConstructed
    /\ on_car_counted = TRUE
    /\ d_running = TRUE
    /\ d_thread = 1
    /\ counting_enabled = TRUE
    /\ highlight_enabled = TRUE
    /\ bg_frame = "road"
    /\ motion_box = "none"
    /\ overlay_frame = 0
    /\ overlay_frame_id = 0
    /\ dworker = [w \in DWorkerIds |->
                     IF w = 1 THEN [NoDWorker EXCEPT !.pc = "loop"]
                     ELSE NoDWorker]
    /\ dcaller = "idle"
    /\ viewer = NewViewer
    /\ d_hist = [counted_on |-> 0, cycles |-> 0, calls |-> 0,
                 stopped |-> FALSE, yielded |-> {}, dup |-> FALSE]
    /\ srv = Stored(TRUE, TRUE)
    /\ BlobIdle

NextGated ==
    \/ DLoop(1) \/ DModes(1) \/ GDetect(1) \/ DStore(1) \/ DCount(1)
    \/ DCallbackReturns(1) \/ DOverlay(1) \/ DDraw(1)
    \/ \E b \in BOOLEAN : DSetCounting(b)
    \/ \E b \in BOOLEAN : DSetHighlight(b)

SpecGated == InitGated /\ [][NextGated]_vars

\* C33: whenever the count is incremented, a blob was found in the current
\* detection cycle and in the executed detection cycle just before it,
\* whatever was switched or skipped in between.
C33_ConsecutiveConfirmation ==
    [][car_count' > car_count
          => /\ Len(log) >= 2
             /\ log[Len(log)].detected
             /\ log[Len(log) - 1].detected]_vars

\* ------------------------------------------------------------------------
\* The count written by the worker and by the request layer (SpecRace)
\* ------------------------------------------------------------------------
\* The counts the database holds when counting is switched on
\* (server.py:318).
StoredCounts == {0, 3}

\* if self._counting_enabled: self._update_count(detected)
\* (car_detector.py:252-253) up to the read of self._car_count in
\* self._car_count += 1 (car_detector.py:376-381); a call that increments
\* nothing runs to its end (car_detector.py:376-379, 388-392).  No lock is
\* held.
RCount(w) ==
    /\ dworker[w].pc = "count"
    /\ IF ~counting_enabled
       THEN /\ DGoto(w, "overlay")
            /\ UNCHANGED <<cvars, d_hist>>
       ELSE /\ d_hist' = [d_hist EXCEPT !.counted_on = dworker[w].fid]
            /\ UNCHANGED <<on_car_counted, detect_worker, log>>
            /\ IF /\ dworker[w].detected
                  /\ ~car_present
                  /\ detect_streak + 1 >= CONFIRM_FRAMES
               THEN /\ detect_streak' = detect_streak + 1
                    /\ clear_streak' = 0
                    /\ car_present' = TRUE
                    /\ dworker' = [dworker EXCEPT
                                      ![w].pc = "incr",
                                      ![w].count_read = car_count]
                    /\ UNCHANGED <<car_count, cb_calls, escaped>>
               ELSE /\ update_count(dworker[w].detected, FALSE)
                    /\ DGoto(w, "overlay")
    /\ UNCHANGED <<DRest, bg_frame, motion_box, overlay_frame,
                   overlay_frame_id>>

\* The write of self._car_count += 1 and the call of the callback with the
\* count (car_detector.py:381-387)
RIncrement(w) ==
    /\ dworker[w].pc = "incr"
    /\ car_count' = dworker[w].count_read + 1
    /\ \E cb_raises \in BOOLEAN :
          cb_calls' = IF on_car_counted
                      THEN Append(cb_calls, [arg |-> car_count',
                                             raised |-> cb_raises])
                      ELSE cb_calls
    /\ escaped' = FALSE
    /\ DGoto(w, IF on_car_counted THEN "callback" ELSE "overlay")
    /\ UNCHANGED <<car_present, detect_streak, clear_streak, on_car_counted,
                   detect_worker, log, d_hist>>
    /\ UNCHANGED <<DRest, bg_frame, motion_box, overlay_frame,
                   overlay_frame_id>>

\* set_car_count(count) (car_detector.py:108-109), called with the count of
\* the database (server.py:318)
SetCarCount(count) ==
    /\ dcaller = "idle"
    /\ d_hist.calls < MaxDCalls
    /\ car_count' = count
    /\ d_hist' = Called
    /\ UNCHANGED <<car_present, detect_streak, clear_streak, on_car_counted,
                   cb_calls, escaped, detect_worker, log>>
    /\ UNCHANGED <<rvars, camvars, bvars, d_running, d_thread,
                   counting_enabled, highlight_enabled, bg_frame, motion_box,
                   overlay_frame, overlay_frame_id, dworker, dcaller, viewer,
                   srv>>

\* reset_car_count() (car_detector.py:111-112, server.py:341-344)
ResetCarCount ==
    /\ dcaller = "idle"
    /\ d_hist.calls < MaxDCalls
    /\ car_count' = 0
    /\ d_hist' = Called
    /\ UNCHANGED <<car_present, detect_streak, clear_streak, on_car_counted,
                   cb_calls, escaped, detect_worker, log>>
    /\ UNCHANGED <<rvars, camvars, bvars, d_running, d_thread,
                   counting_enabled, highlight_enabled, bg_frame, motion_box,
                   overlay_frame, overlay_frame_id, dworker, dcaller, viewer,
                   srv>>

\* set_counting(True), set_car_count(db.get_car_count()), set_highlight(True)
\* and start() have returned (server.py:317-320, 333-335) and the worker has
\* taken its first frame as the background; count_read is the count the
\* worker has read for the increment it is in.
InitRace ==
    /\ CameraStarted
    /\ slept = -1
    /\ ReassemblyIdle
    /\ car_present = FALSE
    /\ detect_streak = 0
    /\ clear_streak = 0
    /\ car_count \in StoredCounts
    /\ cb_calls = <<>>
    /\ escaped = FALSE
    /\ detect_worker = "running"
    /\ log = <<>>
    /\ on_car_counted = TRUE
    /\ d_running = TRUE
    /\ d_thread = 1
    /\ counting_enabled = TRUE
    /\ highlight_enabled = TRUE
    /\ bg_frame = "road"
    /\ motion_box = "none"
    /\ overlay_frame = 0
    /\ overlay_frame_id = 0
    /\ dworker = [w \in DWorkerIds |->
                     [pc |-> IF w = 1 THEN "loop" ELSE "unborn",
                      fj |-> <<>>, fid |-> 0, detected |-> FALSE,
                      box |-> "none", count_read |-> 0]]
    /\ dcaller = "idle"
    /\ viewer = NewViewer
    /\ d_hist = [counted_on |-> 0, cycles |-> 0, calls |-> 0,
                 stopped |-> FALSE, yielded |-> {}, dup |-> FALSE]
    /\ srv = Stored(TRUE, TRUE)
    /\ BlobIdle

NextRace ==
    \/ DLoop(1) \/ DModes(1) \/ GDetect(1) \/ DStore(1)
    \/ RCount(1) \/ RIncrement(1)
    \/ DCallbackReturns(1) \/ DOverlay(1) \/ DDraw(1)
    \/ \E n \in StoredCounts : SetCarCount(n)
    \/ ResetCarCount

SpecRace == InitRace /\ [][NextRace]_vars

\* C34: an increment leaves the count one above what it is when the
\* increment is written, also when set_car_count() or reset_car_count() ran
\* since the worker read the count; an increment overtaken by such a call
\* may as well have taken place before it, and then leaves the count as the
\* call set it.
C34_NoLostUpdate ==
    [][\A w \in DWorkerIds :
          (dworker[w].pc = "incr" /\ dworker'[w].pc # "incr")
             => \/ car_count' = car_count + 1
                \/ /\ dworker[w].count_read # car_count
                   /\ car_count' = car_count]_vars

\* The threads executing _detect_loop.
DExecuting ==
    {w \in DWorkerIds : dworker[w].pc \notin {"unborn", "done", "crashed"}}

\* ------------------------------------------------------------------------
\* POST /api/dev-settings (server.py:307-352), one request at a time
\* (SpecSettings)
\* ------------------------------------------------------------------------
\* The number of requests handled.
MaxRequests == 2

\* db.get_car_count() (server.py:318): the count the count-changed callback
\* stored last (server.py:413), in a database that held 0 at boot; a call
\* that raised stored nothing.
RECURSIVE db_get_car_count(_)
db_get_car_count(cbs) ==
    IF cbs = <<>> THEN 0
    ELSE IF ~cbs[Len(cbs)].raised THEN cbs[Len(cbs)].arg
    ELSE db_get_car_count(SubSeq(cbs, 1, Len(cbs) - 1))

\* What no step of the handler outside start() and stop() touches.
HRest == <<rvars, camvars, bvars, d_thread, motion_box, overlay_frame_id,
           dworker, viewer>>

\* The counter state but the count.
CounterRest == <<car_present, detect_streak, clear_streak, on_car_counted,
                 cb_calls, escaped, detect_worker, log>>

\* data = request.get_json(...) (server.py:309): a request arrives carrying
\* count_cars, highlight_cars or both; the one before has been answered.
HBegin(c, h) ==
    /\ srv.at = "none"
    /\ dcaller = "idle"
    /\ srv.handled < MaxRequests
    /\ c # "absent" \/ h # "absent"
    /\ srv' = [srv EXCEPT !.req = [count_cars |-> c, highlight_cars |-> h],
                          !.at = IF c # "absent" THEN "count"
                                 ELSE "highlight"]
    /\ UNCHANGED <<HRest, cvars, d_running, counting_enabled,
                   highlight_enabled, bg_frame, overlay_frame, dcaller,
                   d_hist>>

\* enabled = bool(data["count_cars"]); db.set_count_cars(enabled);
\* set_counting(True); set_car_count(db.get_car_count()), or
\* set_counting(False) (server.py:312-318, 321-322)
HCount ==
    /\ srv.at = "count"
    /\ LET enabled == srv.req.count_cars = "on" IN
       /\ srv' = [srv EXCEPT !.count_cars = enabled, !.at = "count_run"]
       /\ counting_enabled' = enabled
       /\ car_count' = IF enabled THEN db_get_car_count(cb_calls)
                       ELSE car_count
    /\ UNCHANGED <<HRest, CounterRest, d_running, highlight_enabled,
                   bg_frame, overlay_frame, dcaller, d_hist>>

\* The step after set_counting with stop() called whatever the stored
\* highlight setting.
HCountRun_StopAlways ==
    /\ srv.at = "count_run"
    /\ LET enabled == srv.req.count_cars = "on" IN
       IF enabled /\ ~d_running
       THEN /\ \E w \in DWorkerIds : dworker[w].pc = "unborn"
            /\ d_running' = TRUE
            /\ bg_frame' = "none"
            /\ dcaller' = "st_spawn"
            /\ d_hist' = [d_hist EXCEPT !.stopped = FALSE]
       ELSE IF ~enabled
       THEN /\ d_running' = FALSE
            /\ dcaller' = "join"
            /\ UNCHANGED <<bg_frame, d_hist>>
       ELSE UNCHANGED <<d_running, bg_frame, dcaller, d_hist>>
    /\ srv' = [srv EXCEPT !.at = IF srv.req.highlight_cars # "absent"
                                 THEN "highlight" ELSE "respond"]
    /\ UNCHANGED <<HRest, cvars, counting_enabled, highlight_enabled,
                   overlay_frame>>

\* if not car_detector._running: car_detector.start(), or
\* if not db.get_highlight_cars(): car_detector.stop() (server.py:319-320,
\* 323-325), up to self._bg_frame = None of start() (car_detector.py:74-77)
\* and self._running = False of stop() (car_detector.py:83); the calls run
\* on in DStartSpawn and in DStopJoined, DStopJoinTimeout and DStopClear.
HCountRun ==
    /\ srv.at = "count_run"
    /\ LET enabled == srv.req.count_cars = "on" IN
       IF enabled /\ ~d_running
       THEN /\ \E w \in DWorkerIds : dworker[w].pc = "unborn"
            /\ d_running' = TRUE
            /\ bg_frame' = "none"
            /\ dcaller' = "st_spawn"
            /\ d_hist' = [d_hist EXCEPT !.stopped = FALSE]
       ELSE IF ~enabled /\ ~srv.highlight_cars
       THEN /\ d_running' = FALSE
            /\ dcaller' = "join"
            /\ UNCHANGED <<bg_frame, d_hist>>
       ELSE UNCHANGED <<d_running, bg_frame, dcaller, d_hist>>
    /\ srv' = [srv EXCEPT !.at = IF srv.req.highlight_cars # "absent"
                                 THEN "highlight" ELSE "respond"]
    /\ UNCHANGED <<HRest, cvars, counting_enabled, highlight_enabled,
                   overlay_frame>>

\* enabled = bool(data["highlight_cars"]); db.set_highlight_cars(enabled);
\* car_detector.set_highlight(enabled) (server.py:328-332,
\* car_detector.py:96-100), once the calls of the count_cars part have
\* returned
HHighlight ==
    /\ srv.at = "highlight"
    /\ dcaller = "idle"
    /\ LET enabled == srv.req.highlight_cars = "on" IN
       /\ srv' = [srv EXCEPT !.highlight_cars = enabled,
                             !.at = "highlight_run"]
       /\ highlight_enabled' = enabled
       /\ overlay_frame' = IF enabled THEN overlay_frame ELSE 0
    /\ UNCHANGED <<HRest, cvars, d_running, counting_enabled, bg_frame,
                   dcaller, d_hist>>

\* if enabled and not car_detector._running: car_detector.start(); elif not
\* enabled and not db.get_count_cars(): car_detector.stop()
\* (server.py:333-336)
HHighlightRun ==
    /\ srv.at = "highlight_run"
    /\ LET enabled == srv.req.highlight_cars = "on" IN
       IF enabled /\ ~d_running
       THEN /\ \E w \in DWorkerIds : dworker[w].pc = "unborn"
            /\ d_running' = TRUE
            /\ bg_frame' = "none"
            /\ dcaller' = "st_spawn"
            /\ d_hist' = [d_hist EXCEPT !.stopped = FALSE]
       ELSE IF ~enabled /\ ~srv.count_cars
       THEN /\ d_running' = FALSE
            /\ dcaller' = "join"
            /\ UNCHANGED <<bg_frame, d_hist>>
       ELSE UNCHANGED <<d_running, bg_frame, dcaller, d_hist>>
    /\ srv' = [srv EXCEPT !.at = "respond"]
    /\ UNCHANGED <<HRest, cvars, counting_enabled, highlight_enabled,
                   overlay_frame>>

\* return jsonify(...) (server.py:346-351), once the calls have returned
HRespond ==
    /\ srv.at = "respond"
    /\ dcaller = "idle"
    /\ srv' = [srv EXCEPT !.at = "none", !.req = NoRequest,
                          !.handled = srv.handled + 1]
    /\ UNCHANGED <<HRest, cvars, d_running, counting_enabled,
                   highlight_enabled, bg_frame, overlay_frame, dcaller,
                   d_hist>>

HandlerStep ==
    \/ \E c \in {"absent", "on", "off"}, h \in {"absent", "on", "off"} :
          HBegin(c, h)
    \/ HCount \/ HCountRun \/ HHighlight \/ HHighlightRun \/ HRespond
    \/ DStartSpawn \/ DStopJoined \/ DStopJoinTimeout \/ DStopClear

\* server.py:406-418: the camera is started, the detector constructed, the
\* callback registered and both settings stored as off.
InitSettings ==
    /\ CameraStarted
    /\ slept = -1
    /\ ReassemblyIdle
    /\ CounterConstructed
    /\ on_car_counted = TRUE
    /\ DetectorConstructed
    /\ BlobIdle

NextSettings ==
    \/ SourcePublishes
    \/ \E w \in DWorkerIds : DWorkerStep(w)
    \/ HandlerStep

SpecSettings == InitSettings /\ [][NextSettings]_vars

CounterState == <<car_present, detect_streak, clear_streak, car_count>>

\* C12: Counter State changes only in a cycle that runs on a frame newer
\* than the one the counter was last updated on; while no new frame is
\* published it stays as it is.
C12_GapLeavesCounter ==
    [][CounterState' # CounterState
          => d_hist'.counted_on > d_hist.counted_on]_vars

\* The loop of worker w has come round: it is fetching the frame of another
\* cycle, or it has ended because the detector was stopped, or it idles
\* because neither counting nor highlighting is enabled.
CameRound(w) ==
    \/ dworker[w].pc \in {"get", "done"}
    \/ ~counting_enabled /\ ~highlight_enabled

\* C13: no exception of _detect_motion or _draw_overlay ends a detection
\* worker; the step in which _detect_motion raises leaves Counter State, the
\* motion box and the overlay frame as they were; and after a failed
\* detection or a cycle's overlay step the worker comes round to another
\* cycle unless the detector is stopped.
C13_CycleErrorsContained ==
    /\ [](\A w \in DWorkerIds : dworker[w].pc # "crashed")
    /\ [][\A w \in DWorkerIds :
             (dworker[w].pc = "detect" /\ dworker'[w].pc \notin {"detect", "store"})
                => /\ dworker'[w].pc = "caught"
                   /\ UNCHANGED <<CounterState, motion_box, overlay_frame,
                                  overlay_frame_id>>]_vars
    /\ \A w \in DWorkerIds :
          (dworker[w].pc \in {"caught", "overlay"}) ~> CameRound(w)

\* A detection has raised on an undecodable frame after a cycle that
\* updated the counter and drew an overlay.
C13_Witness ==
    \E w \in DWorkerIds :
        /\ dworker[w].pc = "caught"
        /\ clear_streak > 0
        /\ overlay_frame # 0
        /\ d_running

\* Worker w is between two cycles: it has no frame in hand.
BetweenCycles(w) ==
    dworker[w].pc \in {"unborn", "loop", "modes", "get", "done", "crashed"}

\* C23: once set_highlight(False) has returned and no cycle is in flight,
\* there is no overlay frame.
C23_NoOverlayWhenHighlightOff ==
    (/\ ~highlight_enabled
     /\ dcaller = "idle"
     /\ \A w \in DWorkerIds : BetweenCycles(w))
        => overlay_frame = 0

\* What a cycle works on and leaves behind, besides Counter State.
CycleOutput == <<bg_frame, motion_box, overlay_frame, overlay_frame_id>>

\* C24: a step changes Counter State only with counting enabled; a worker
\* that finds both counting and highlighting disabled at the top of its
\* loop idles, leaving the Background Model, the motion box, the overlay
\* and Counter State as they are; and a worker fetches a frame only with
\* one of the two enabled at the top of its loop.
C24_GatedByFlags ==
    [][/\ CounterState' # CounterState => counting_enabled
       /\ \A w \in DWorkerIds :
             /\ (/\ dworker[w].pc = "modes"
                 /\ dworker'[w] # dworker[w]
                 /\ ~counting_enabled /\ ~highlight_enabled)
                   => /\ dworker'[w].pc = "loop"
                      /\ UNCHANGED <<CounterState, CycleOutput>>
             /\ (dworker[w].pc # "get" /\ dworker'[w].pc = "get")
                   => (counting_enabled \/ highlight_enabled)
             /\ (BetweenCycles(w) /\ dworker'[w] # dworker[w])
                   => UNCHANGED <<CounterState, CycleOutput>>]_vars

\* A highlight-only cycle has found a vehicle and drawn it, and Counter State
\* is as constructed.
C24_Witness ==
    /\ highlight_enabled /\ ~counting_enabled
    /\ motion_box = "box"
    /\ overlay_frame # 0
    /\ CounterState = <<FALSE, 0, 0, 0>>

\* C25: start() and stop() leave no Background Model when they set the
\* running flag and when stop() returns; a detection that runs with no
\* Background Model, or with one of another shape than the ROI, makes the
\* ROI the Background Model and reports no detection and no box; and the
\* detect streak advances only on a cycle whose detection reported one, so
\* never on the first frame processed after start().
C25_BackgroundBootstrap ==
    /\ [][((~d_running /\ d_running')
               \/ (~d_hist.stopped /\ d_hist'.stopped))
             => bg_frame' = "none"]_vars
    /\ [][\A w \in DWorkerIds :
             (/\ dworker[w].pc = "detect"
              /\ dworker'[w].pc = "store"
              /\ \/ bg_frame = "none"
                 \/ ShapeOf(bg_frame) # ShapeOf(Decode(dworker[w].fj)))
                => /\ bg_frame' = Decode(dworker[w].fj)
                   /\ ~dworker'[w].detected
                   /\ dworker'[w].box = "none"]_vars
    /\ [][detect_streak' > detect_streak
             => \E w \in DWorkerIds :
                   /\ dworker[w].pc = "count"
                   /\ dworker[w].detected]_vars

\* The first frame processed after start() shows a vehicle: it has become
\* the Background Model and no detection is reported.
C25_Witness ==
    \E w \in DWorkerIds :
        /\ dworker[w].pc = "store"
        /\ Decode(dworker[w].fj) = "car"
        /\ bg_frame = "car"
        /\ ~dworker[w].detected
        /\ d_hist.cycles = 1

\* ------------------------------------------------------------------------
\* Claims on the preview generator (SpecViewer)
\* ------------------------------------------------------------------------
\* C15: generate_mjpeg never yields a frame it has already yielded unless a
\* newer frame, overlay or raw, has been published in between.
C15_NoRepeat == ~d_hist.dup

\* ------------------------------------------------------------------------
\* Claims on CarDetector.stop (SpecDetector)
\* ------------------------------------------------------------------------
\* C16: once stop() has returned, and until the next start(), there is no
\* overlay frame and no motion box.
C16_StoppedIsClear ==
    d_hist.stopped => (overlay_frame = 0 /\ motion_box = "none")

\* C36: whatever the interleaving of start() and stop() calls, at most one
\* thread is executing _detect_loop.
C36_AtMostOneDetectWorker == Cardinality(DExecuting) <= 1

\* ------------------------------------------------------------------------
\* Blob extraction (car_detector.py:180-216, 300-314, 322-373)
\* ------------------------------------------------------------------------
ERODE_ITERATIONS == 3
DILATE_ITERATIONS == 4
MIN_BLOB_WIDTH == 15
MIN_BLOB_HEIGHT == 8
MIN_BLOB_AREA == 120
EDGE_MARGIN == 18

\* The largest rectangle tried.
MaxRectW == 21
MaxRectH == 11

\* The ROI: wide and high enough for the largest rectangle to lie between
\* the masked edge margins.  A mask is the set of its True pixels
\* <<row, column>>, both counted from 0.
RoiW == 2 * EDGE_MARGIN + MaxRectW
RoiH == 2 * EDGE_MARGIN + MaxRectH

InRoi(p) == p[1] >= 0 /\ p[1] < RoiH /\ p[2] >= 0 /\ p[2] < RoiW

\* The four pixels the slices of _erode and _dilate pair with p.
Nbrs(p) == {<<p[1] - 1, p[2]>>, <<p[1] + 1, p[2]>>,
            <<p[1], p[2] - 1>>, <<p[1], p[2] + 1>>}

\* One round of _erode (car_detector.py:184-189): a pixel stays True when
\* each neighbour inside the array is True; the slices pair nothing with
\* the pixels beyond the array.
erode_once(mask) ==
    {p \in mask : \A n \in Nbrs(p) : InRoi(n) => n \in mask}

RECURSIVE erode(_, _)
erode(mask, iterations) ==
    IF iterations = 0 THEN mask
    ELSE erode(erode_once(mask), iterations - 1)

\* One round of _dilate (car_detector.py:196-201)
dilate_once(mask) ==
    mask \cup {n \in UNION {Nbrs(p) : p \in mask} : InRoi(n)}

RECURSIVE dilate(_, _)
dilate(mask, iterations) ==
    IF iterations = 0 THEN mask
    ELSE dilate(dilate_once(mask), iterations - 1)

\* The loop of _find_runs (car_detector.py:208-215) from index i on, start
\* being -1 for None; arr[i + 1] is the source's arr[i].
RECURSIVE find_runs_from(_, _, _, _)
find_runs_from(arr, i, start, runs) ==
    IF i = Len(arr)
    THEN IF start # -1 THEN Append(runs, <<start, Len(arr)>>) ELSE runs
    ELSE IF arr[i + 1] /\ start = -1
    THEN find_runs_from(arr, i + 1, i, runs)
    ELSE IF ~arr[i + 1] /\ start # -1
    THEN find_runs_from(arr, i + 1, -1, Append(runs, <<start, i>>))
    ELSE find_runs_from(arr, i + 1, start, runs)

\* _find_runs (car_detector.py:205-216): the runs [start, end) of True.
find_runs(arr) == find_runs_from(arr, 0, -1, <<>>)

RunLen(r) == r[2] - r[1]

\* r put into the sorted sequence s behind every run at least as long.
RECURSIVE InsertRun(_, _)
InsertRun(s, r) ==
    IF s = <<>> THEN <<r>>
    ELSE IF RunLen(Head(s)) >= RunLen(r)
    THEN <<Head(s)>> \o InsertRun(Tail(s), r)
    ELSE <<r>> \o s

\* col_runs.sort(key=lambda r: r[1] - r[0], reverse=True)
\* (car_detector.py:339): longest first, equal lengths in their old order.
RECURSIVE SortRuns(_)
SortRuns(runs) ==
    IF runs = <<>> THEN <<>>
    ELSE InsertRun(SortRuns(SubSeq(runs, 1, Len(runs) - 1)),
                   runs[Len(runs)])

\* max(row_runs, key=lambda r: r[1] - r[0]) (car_detector.py:352): the first
\* of the longest runs.
RECURSIVE MaxRun(_)
MaxRun(runs) ==
    IF Len(runs) = 1 THEN runs[1]
    ELSE LET m == MaxRun(SubSeq(runs, 1, Len(runs) - 1)) IN
         IF RunLen(runs[Len(runs)]) > RunLen(m) THEN runs[Len(runs)] ELSE m

NoneFound == [found |-> FALSE, box |-> <<0, 0, 0, 0>>, area |-> 0]

\* for col_start, col_end in col_runs: ... (car_detector.py:341-373): the
\* first run, longest first, whose blob is wide, high and large enough.
RECURSIVE scan_col_runs(_, _, _, _)
scan_col_runs(mask, col_runs, roi_x1, roi_y1) ==
    IF col_runs = <<>> THEN NoneFound
    ELSE
      LET col_start == Head(col_runs)[1]
          col_end == Head(col_runs)[2]
          width == col_end - col_start
          col_slice == {p \in mask : p[2] >= col_start /\ p[2] < col_end}
          row_has_motion == [i \in 1..RoiH |->
                                \E p \in col_slice : p[1] = i - 1]
          row_runs == find_runs(row_has_motion)
          best_row == MaxRun(row_runs)
          row_start == best_row[1]
          row_end == best_row[2]
          height == row_end - row_start
          blob_region == {p \in col_slice :
                             p[1] >= row_start /\ p[1] < row_end}
          area == Cardinality(blob_region)
          rest == scan_col_runs(mask, Tail(col_runs), roi_x1, roi_y1)
      IN  IF width < MIN_BLOB_WIDTH THEN NoneFound
          ELSE IF row_runs = <<>> THEN rest
          ELSE IF height < MIN_BLOB_HEIGHT THEN rest
          ELSE IF area < MIN_BLOB_AREA THEN rest
          ELSE [found |-> TRUE,
                box |-> <<col_start + roi_x1, row_start + roi_y1,
                          col_end + roi_x1, row_end + roi_y1>>,
                area |-> area]

\* _find_largest_blob with a column active from its first set pixel on.
find_largest_blob_any_pixel(mask, roi_x1, roi_y1) ==
    LET col_counts == [i \in 1..RoiW |->
                          Cardinality({p \in mask : p[2] = i - 1})]
        active_cols == [i \in 1..RoiW |-> col_counts[i] >= 1]
        col_runs == find_runs(active_cols)
    IN  scan_col_runs(mask, SortRuns(col_runs), roi_x1, roi_y1)

\* _find_largest_blob with the runs of columns tried from left to right.
find_largest_blob_unsorted(mask, roi_x1, roi_y1) ==
    LET col_counts == [i \in 1..RoiW |->
                          Cardinality({p \in mask : p[2] = i - 1})]
        active_cols == [i \in 1..RoiW |-> col_counts[i] >= 2]
        col_runs == find_runs(active_cols)
    IN  scan_col_runs(mask, col_runs, roi_x1, roi_y1)

\* _find_largest_blob (car_detector.py:330-373)
find_largest_blob(mask, roi_x1, roi_y1) ==
    LET col_counts == [i \in 1..RoiW |->
                          Cardinality({p \in mask : p[2] = i - 1})]
        active_cols == [i \in 1..RoiW |-> col_counts[i] >= 2]
        col_runs == find_runs(active_cols)
    IN  scan_col_runs(mask, SortRuns(col_runs), roi_x1, roi_y1)

\* The edge masking applied whatever the shape of the mask.
mask_edges_always(raw_mask, h, w) ==
    {p \in raw_mask : /\ p[1] >= EDGE_MARGIN
                      /\ p[1] < h - EDGE_MARGIN
                      /\ p[2] >= EDGE_MARGIN
                      /\ p[2] < w - EDGE_MARGIN}

\* h, w = raw_mask.shape; if 2 * m < h and 2 * m < w: raw_mask[:m, :] =
\* False; raw_mask[-m:, :] = False; raw_mask[:, :m] = False;
\* raw_mask[:, -m:] = False (car_detector.py:304-310)
mask_edges_of(raw_mask, h, w) ==
    IF 2 * EDGE_MARGIN < h /\ 2 * EDGE_MARGIN < w
    THEN {p \in raw_mask : /\ p[1] >= EDGE_MARGIN
                           /\ p[1] < h - EDGE_MARGIN
                           /\ p[2] >= EDGE_MARGIN
                           /\ p[2] < w - EDGE_MARGIN}
    ELSE raw_mask

\* The edge masking on the ROI of the blob specification.
mask_edges(raw_mask) == mask_edges_of(raw_mask, RoiH, RoiW)

\* An opening that dilates only as often as it erodes.
cleaned_symmetric(raw_mask) ==
    dilate(erode(raw_mask, ERODE_ITERATIONS), ERODE_ITERATIONS)

\* Morphological opening (car_detector.py:312-314)
cleaned(raw_mask) ==
    dilate(erode(raw_mask, ERODE_ITERATIONS), DILATE_ITERATIONS)

\* The pixels of the difference image above PIXEL_THRESHOLD
\* (car_detector.py:299-300): those of the filled rectangle r.
RawMask(r) ==
    {<<row, col>> : row \in r.y..(r.y + r.h - 1),
                    col \in r.x..(r.x + r.w - 1)}

\* The part of _detect_motion from the raw mask to the blob
\* (car_detector.py:300-314, 322-323)
ExtractBlob(r) ==
    find_largest_blob(cleaned(mask_edges(RawMask(r))), r.roi_x1, r.roi_y1)

\* The ROI origins tried: the corner of the frame and the default ROI of a
\* 640x480 frame (car_detector.py:30, 218-225; camera.py:21).
TestOrigins == {<<0, 0>>, <<32, 168>>}

\* The rectangles tried: from a few pixels under the size thresholds up to
\* the largest, at the edge margin and one pixel into it.
TestRects ==
    {[x |-> x, y |-> y, w |-> w, h |-> h, roi_x1 |-> o[1], roi_y1 |-> o[2]] :
        x \in (EDGE_MARGIN - 1)..EDGE_MARGIN,
        y \in (EDGE_MARGIN - 1)..EDGE_MARGIN,
        w \in (MIN_BLOB_WIDTH - 4)..MaxRectW,
        h \in (MIN_BLOB_HEIGHT - 3)..MaxRectH,
        o \in TestOrigins}

InitBlob ==
    /\ CameraConstructed
    /\ ReassemblyIdle
    /\ CounterIdle
    /\ DetectorIdle
    /\ rect \in TestRects
    /\ blob = NoBlob
    /\ op_in = NoOp
    /\ op_out = NoOp

\* motion_box, blob_area = self._find_largest_blob(cleaned, roi_x1, roi_y1)
DetectBlob ==
    /\ blob.st = "unset"
    /\ LET b == ExtractBlob(rect) IN
       blob' = [st |-> "done", found |-> b.found, box |-> b.box,
                area |-> b.area]
    /\ UNCHANGED <<rvars, cvars, camvars, dvars, rect, op_in, op_out>>

NextBlob == DetectBlob

SpecBlob == InitBlob /\ [][NextBlob]_vars

\* ------------------------------------------------------------------------
\* Claims on blob extraction (SpecBlob)
\* ------------------------------------------------------------------------
\* The rectangle lies clear of the masked edge margin, so the raw mask holds
\* exactly the rectangle.
Inside(r) ==
    /\ r.x >= EDGE_MARGIN /\ r.x + r.w <= RoiW - EDGE_MARGIN
    /\ r.y >= EDGE_MARGIN /\ r.y + r.h <= RoiH - EDGE_MARGIN

\* The opening dilates once more than it erodes: what it adds on each side.
Tolerance == DILATE_ITERATIONS - ERODE_ITERATIONS

\* The rectangle in frame coordinates, as (x1, y1, x2, y2).
FrameBox(r) ==
    <<r.x + r.roi_x1, r.y + r.roi_y1,
      r.x + r.w + r.roi_x1, r.y + r.h + r.roi_y1>>

Grown(r) ==
    <<FrameBox(r)[1] - Tolerance, FrameBox(r)[2] - Tolerance,
      FrameBox(r)[3] + Tolerance, FrameBox(r)[4] + Tolerance>>

Dist(a, b) == IF a >= b THEN a - b ELSE b - a

WithinTolerance(box, r) ==
    \A i \in 1..4 : Dist(box[i], FrameBox(r)[i]) <= Tolerance

\* C17: a 20x10 rectangle is returned as its own bounding box, offset by the
\* ROI origin, within the erosion/dilation tolerance; a rectangle narrower
\* than 15 pixels or lower than 8 pixels yields no blob.
C17_RectangleThresholds ==
    (blob.st = "done" /\ Inside(rect)) =>
        /\ (rect.w = 20 /\ rect.h = 10)
              => (blob.found /\ WithinTolerance(blob.box, rect))
        /\ (rect.w < MIN_BLOB_WIDTH \/ rect.h < MIN_BLOB_HEIGHT)
              => ~blob.found

\* C17 as the code has it: the size thresholds are applied to the blob after
\* the opening, which is the rectangle grown by one pixel on each side with
\* its corners cut.  A 20x10 rectangle is returned grown by exactly that; so
\* is every rectangle at least 14 wide and 8 high; a rectangle narrower than
\* 13 pixels, or too low to survive the erosion (lower than 7), yields no
\* blob; and whatever is returned is at least 15 wide, 8 high and 120 pixels
\* large and within one pixel of the rectangle.
C17_CleanedBlobThresholds ==
    (blob.st = "done" /\ Inside(rect)) =>
        /\ (rect.w = 20 /\ rect.h = 10)
              => (blob.found /\ blob.box = Grown(rect))
        /\ (rect.w >= MIN_BLOB_WIDTH - 1 /\ rect.h >= MIN_BLOB_HEIGHT)
              => (blob.found /\ blob.box = Grown(rect))
        /\ (rect.w < MIN_BLOB_WIDTH - 2 * Tolerance
               \/ rect.h <= 2 * ERODE_ITERATIONS)
              => ~blob.found
        /\ blob.found
              => /\ blob.box[3] - blob.box[1] >= MIN_BLOB_WIDTH
                 /\ blob.box[4] - blob.box[2] >= MIN_BLOB_HEIGHT
                 /\ blob.area >= MIN_BLOB_AREA
                 /\ WithinTolerance(blob.box, rect)

\* The 20x10 rectangle of the claim has been extracted in the default ROI.
C17_Witness ==
    /\ blob.st = "done"
    /\ Inside(rect)
    /\ rect.w = 20 /\ rect.h = 10
    /\ rect.roi_x1 = 32 /\ rect.roi_y1 = 168
    /\ blob.found

\* ------------------------------------------------------------------------
\* Array operations of _detect_motion, one at a time
\* ------------------------------------------------------------------------
\* Everything but the arguments and the result of the operation is as
\* constructed.
ImageIdle ==
    /\ CameraConstructed
    /\ ReassemblyIdle
    /\ CounterIdle
    /\ DetectorIdle
    /\ rect = NoRect
    /\ blob = NoBlob

ImageRest == <<rvars, cvars, camvars, dvars, rect, blob, op_in>>

Abs(n) == IF n >= 0 THEN n ELSE -n

\* ------------------------------------------------------------------------
\* Jitter clamping (car_detector.py:41, 288-296)
\* ------------------------------------------------------------------------
MAX_JITTER_PX == 15

\* The largest offset, in either direction, the phase correlation reports.
MaxOffset == 17

\* The clamp applied to each component on its own.
clamp_jitter_each(dx, dy) ==
    <<IF Abs(dx) > MAX_JITTER_PX THEN 0 ELSE dx,
      IF Abs(dy) > MAX_JITTER_PX THEN 0 ELSE dy>>

\* if abs(dx) > MAX_JITTER_PX or abs(dy) > MAX_JITTER_PX: dx, dy = 0, 0
\* (car_detector.py:292-293)
clamp_jitter(dx, dy) ==
    IF Abs(dx) > MAX_JITTER_PX \/ Abs(dy) > MAX_JITTER_PX
    THEN <<0, 0>>
    ELSE <<dx, dy>>

\* dx, dy = self._phase_correlate(roi, self._bg_frame) (car_detector.py:289):
\* any pair of integers within the range.
InitClamp ==
    /\ ImageIdle
    /\ op_in \in [done : {TRUE},
                  dx : (-MaxOffset)..MaxOffset,
                  dy : (-MaxOffset)..MaxOffset]
    /\ op_out = NoOp

\* The offset handed to _shift_image (car_detector.py:292-296)
ClampJitter ==
    /\ ~op_out.done
    /\ LET d == clamp_jitter(op_in.dx, op_in.dy) IN
       op_out' = [done |-> TRUE, dx |-> d[1], dy |-> d[2]]
    /\ UNCHANGED ImageRest

NextClamp == ClampJitter

SpecClamp == InitClamp /\ [][NextClamp]_vars

\* C26: the offset used to align the background has |dx| <= 15 and
\* |dy| <= 15; it is (0, 0) whenever the estimate has |dx| > 15 or
\* |dy| > 15, and the estimate itself otherwise.
C26_JitterClamped ==
    op_out.done =>
        /\ Abs(op_out.dx) <= MAX_JITTER_PX
        /\ Abs(op_out.dy) <= MAX_JITTER_PX
        /\ IF Abs(op_in.dx) > MAX_JITTER_PX \/ Abs(op_in.dy) > MAX_JITTER_PX
           THEN op_out.dx = 0 /\ op_out.dy = 0
           ELSE op_out.dx = op_in.dx /\ op_out.dy = op_in.dy

\* An estimate with only dx out of range has been clamped.
C26_Witness ==
    /\ op_out.done
    /\ op_in.dx = MAX_JITTER_PX + 1
    /\ op_in.dy = 3
    /\ op_out.dx = 0 /\ op_out.dy = 0

\* ------------------------------------------------------------------------
\* _shift_image (car_detector.py:150-176)
\* ------------------------------------------------------------------------
\* The largest height and width of the arrays tried.
MaxSide == 4

\* An array is a sequence of rows, each a sequence of pixels; arr[y + 1][x + 1]
\* is the source's arr[y, x].
Height(arr) == Len(arr)

Width(arr) == Len(arr[1])

\* arr[a:b, :] with 0 <= a <= b <= h
Rows(arr, a, b) == SubSeq(arr, a + 1, b)

\* arr[:, a:b] with 0 <= a <= b <= w
Cols(arr, a, b) == [y \in 1..Len(arr) |-> SubSeq(arr[y], a + 1, b)]

\* n copies of the row r: what broadcasting makes of arr[0, :] assigned to n
\* rows.
RepeatRow(r, n) == [y \in 1..n |-> r]

\* n copies of the one-column array c side by side: what broadcasting makes
\* of temp[:, 0:1] assigned to n columns.
RepeatCol(c, n) == [y \in 1..Len(c) |-> [x \in 1..n |-> c[y][1]]]

\* The arrays a and b side by side.
Beside(a, b) == [y \in 1..Len(a) |-> a[y] \o b[y]]

\* The shift along y (car_detector.py:159-165)
shift_y(arr, dy) ==
    LET h == Height(arr) IN
    IF dy > 0
    THEN RepeatRow(arr[1], dy) \o Rows(arr, 0, h - dy)
    ELSE IF dy < 0
    THEN Rows(arr, -dy, h) \o RepeatRow(arr[h], -dy)
    ELSE arr

\* The shift along x, on the array already shifted along y
\* (car_detector.py:167-174)
shift_x(temp, dx) ==
    LET w == Width(temp) IN
    IF dx > 0
    THEN Beside(RepeatCol(Cols(temp, 0, 1), dx), Cols(temp, 0, w - dx))
    ELSE IF dx < 0
    THEN Beside(Cols(temp, -dx, w), RepeatCol(Cols(temp, w - 1, w), -dx))
    ELSE temp

\* _shift_image that fills the exposed edge with the first row and column
\* on either side.
shift_image_first_border(arr, dx, dy) ==
    LET h == Height(arr)
        w == Width(arr)
        ty == IF dy > 0 THEN RepeatRow(arr[1], dy) \o Rows(arr, 0, h - dy)
              ELSE IF dy < 0 THEN Rows(arr, -dy, h) \o RepeatRow(arr[1], -dy)
              ELSE arr
    IN  IF Abs(dx) >= w \/ Abs(dy) >= h THEN arr
        ELSE IF dx > 0
        THEN Beside(RepeatCol(Cols(ty, 0, 1), dx), Cols(ty, 0, w - dx))
        ELSE IF dx < 0
        THEN Beside(Cols(ty, -dx, w), RepeatCol(Cols(ty, 0, 1), -dx))
        ELSE ty

\* _shift_image(arr, dx, dy) (car_detector.py:151-176): the array returned.
\* It is built from a copy; arr itself is assigned to nowhere.
shift_image(arr, dx, dy) ==
    IF Abs(dx) >= Width(arr) \/ Abs(dy) >= Height(arr)
    THEN arr
    ELSE shift_x(shift_y(arr, dy), dx)

\* The h x w array whose pixels all differ: pixel (y, x) holds y * w + x.
Distinct(h, w) == [y \in 1..h |-> [x \in 1..w |-> (y - 1) * w + (x - 1)]]

\* The h x w array of a vertical edge: dark left half, bright right half.
Edge(h, w) == [y \in 1..h |-> [x \in 1..w |-> IF 2 * x > w THEN 200 ELSE 10]]

InitShift ==
    /\ ImageIdle
    /\ \E h \in 1..MaxSide, w \in 1..MaxSide,
          dx \in (-MaxSide)..MaxSide, dy \in (-MaxSide)..MaxSide :
          \E a \in {Distinct(h, w), Edge(h, w)} :
             op_in = [done |-> TRUE, arr |-> a, dx |-> dx, dy |-> dy]
    /\ op_out = NoOp

\* aligned_bg = self._shift_image(self._bg_frame, dx, dy)
\* (car_detector.py:296)
ShiftImage ==
    /\ ~op_out.done
    /\ op_out' = [done |-> TRUE,
                  arr |-> shift_image(op_in.arr, op_in.dx, op_in.dy)]
    /\ UNCHANGED ImageRest

NextShift == ShiftImage

SpecShift == InitShift /\ [][NextShift]_vars

Clamp(n, lo, hi) == IF n < lo THEN lo ELSE IF n > hi THEN hi ELSE n

\* C27: for |dx| < w and |dy| < h the pixel (y, x) of the result is the
\* pixel (clamp(y - dy, 0, h - 1), clamp(x - dx, 0, w - 1)) of the input;
\* the input is as it was; and a shift by (0, 0) returns the input's equal.
C27_EdgeReplicatingShift ==
    op_out.done =>
        LET arr == op_in.arr
            h == Height(arr)
            w == Width(arr)
        IN  /\ (Abs(op_in.dx) < w /\ Abs(op_in.dy) < h)
                  => /\ Height(op_out.arr) = h
                     /\ \A y \in 0..(h - 1) :
                           /\ Len(op_out.arr[y + 1]) = w
                           /\ \A x \in 0..(w - 1) :
                                 op_out.arr[y + 1][x + 1] =
                                    arr[Clamp(y - op_in.dy, 0, h - 1) + 1]
                                       [Clamp(x - op_in.dx, 0, w - 1) + 1]
            /\ (op_in.dx = 0 /\ op_in.dy = 0) => op_out.arr = arr

\* A 3 x 4 array of distinct pixels has been shifted up and to the right.
C27_Witness ==
    /\ op_out.done
    /\ op_in.arr = Distinct(3, 4)
    /\ op_in.dx = 2 /\ op_in.dy = -1
    /\ op_out.arr # op_in.arr

\* ------------------------------------------------------------------------
\* One iteration of _erode (car_detector.py:180-190)
\* ------------------------------------------------------------------------
\* The largest side of the masks tried.
MaxMaskSide == 4

\* The masks tried: one filled rectangle in a corner of the array, on its
\* border or one pixel off it.
ErodeRects ==
    {[x |-> x, y |-> y, w |-> w, h |-> h, roi_x1 |-> 0, roi_y1 |-> 0] :
        w \in 1..MaxMaskSide, h \in 1..MaxMaskSide,
        x \in {0, 1, RoiW - MaxMaskSide - 1, RoiW - MaxMaskSide},
        y \in {0, 1, RoiH - MaxMaskSide - 1, RoiH - MaxMaskSide}}

InitErode ==
    /\ ImageIdle
    /\ \E r \in ErodeRects : op_in = [done |-> TRUE, mask |-> RawMask(r)]
    /\ op_out = NoOp

\* self._erode(mask, 1)
ErodeOnce ==
    /\ ~op_out.done
    /\ op_out' = [done |-> TRUE, mask |-> erode(op_in.mask, 1)]
    /\ UNCHANGED ImageRest

NextErode == ErodeOnce

SpecErode == InitErode /\ [][NextErode]_vars

OnBorder(p) ==
    p[1] = 0 \/ p[1] = RoiH - 1 \/ p[2] = 0 \/ p[2] = RoiW - 1

\* C28: one iteration of _erode leaves a pixel set only if the pixel and all
\* four of its direct neighbours were set, a neighbour outside the array
\* counting as unset; so no pixel on the border of the array stays set.
C28_ErodeBorderUnset ==
    op_out.done =>
        /\ \A p \in op_out.mask :
              /\ p \in op_in.mask
              /\ \A n \in Nbrs(p) : n \in op_in.mask
        /\ \A p \in op_out.mask : ~OnBorder(p)

\* ------------------------------------------------------------------------
\* Edge suppression (car_detector.py:302-310)
\* ------------------------------------------------------------------------
\* By how much the largest side tried exceeds twice the margin.
MaxOver == 2

\* The heights and widths tried: one pixel, the margin itself, and the
\* sides around twice the margin.
TestSides ==
    {1, EDGE_MARGIN} \cup (2 * EDGE_MARGIN - 2)..(2 * EDGE_MARGIN + MaxOver)

\* The h x w mask set everywhere.
Full(h, w) == (0..(h - 1)) \X (0..(w - 1))

\* The h x w mask set on its border only.
Frame(h, w) ==
    {p \in Full(h, w) :
        p[1] = 0 \/ p[1] = h - 1 \/ p[2] = 0 \/ p[2] = w - 1}

InitEdges ==
    /\ ImageIdle
    /\ \E h \in TestSides, w \in TestSides :
          \E m \in {Full(h, w), Frame(h, w)} :
             op_in = [done |-> TRUE, h |-> h, w |-> w, mask |-> m]
    /\ op_out = NoOp

\* The mask handed to _erode (car_detector.py:304-313)
MaskEdges ==
    /\ ~op_out.done
    /\ op_out' = [done |-> TRUE,
                  mask |-> mask_edges_of(op_in.mask, op_in.h, op_in.w)]
    /\ UNCHANGED ImageRest

NextEdges == MaskEdges

SpecEdges == InitEdges /\ [][NextEdges]_vars

\* Pixel p lies within EDGE_MARGIN pixels of a side of the h x w array.
InMargin(p, h, w) ==
    \/ p[1] < EDGE_MARGIN \/ p[1] >= h - EDGE_MARGIN
    \/ p[2] < EDGE_MARGIN \/ p[2] >= w - EDGE_MARGIN

\* C29: whatever the shape of the ROI, the mask handed to the erosion has no
\* set pixel within 18 pixels of any of its four sides.
C29_NoSetPixelInMargin ==
    op_out.done =>
        \A p \in op_out.mask : ~InMargin(p, op_in.h, op_in.w)

\* C29 as the code has it: when the ROI is higher and wider than twice the
\* margin, the mask handed to the erosion has no set pixel within 18 pixels
\* of a side and is the raw mask elsewhere; a ROI that is not is handed on
\* with its raw mask untouched.
C29_MarginClearedWhenRoomy ==
    op_out.done =>
        IF 2 * EDGE_MARGIN < op_in.h /\ 2 * EDGE_MARGIN < op_in.w
        THEN op_out.mask =
                {p \in op_in.mask : ~InMargin(p, op_in.h, op_in.w)}
        ELSE op_out.mask = op_in.mask

\* A mask set everywhere, one pixel higher and two pixels wider than twice
\* the margin, has been cut down to its two middle pixels.
C29_Witness ==
    /\ op_out.done
    /\ op_in.h = 2 * EDGE_MARGIN + 1
    /\ op_in.w = 2 * EDGE_MARGIN + 2
    /\ op_in.mask = Full(op_in.h, op_in.w)
    /\ op_out.mask = {<<EDGE_MARGIN, EDGE_MARGIN>>,
                      <<EDGE_MARGIN, EDGE_MARGIN + 1>>}

\* ------------------------------------------------------------------------
\* Background update, pixel by pixel (car_detector.py:298-320)
\* ------------------------------------------------------------------------
PIXEL_THRESHOLD == 40

\* BG_ALPHA = 0.01, in hundredths.
BG_ALPHA_PCT == 1

\* raw_mask at pixel p once the edges have been masked out in place
\* (car_detector.py:299-310): the operations are element-wise, so the mask
\* at p is that of the one-pixel difference.
raw_mask_at(p, h, w, roi, aligned_bg) ==
    LET diff == Abs(roi - aligned_bg)
        raw == IF diff > PIXEL_THRESHOLD THEN {p} ELSE {}
    IN  p \in mask_edges_of(raw, h, w)

\* still = ~raw_mask; self._bg_frame[still] = BG_ALPHA * roi[still] +
\* (1 - BG_ALPHA) * self._bg_frame[still] (car_detector.py:316-320): the new
\* background value at p in hundredths of a grey level, roi and bg being
\* whole grey levels.
update_bg_at(p, h, w, roi, aligned_bg, bg) ==
    LET still == ~raw_mask_at(p, h, w, roi, aligned_bg) IN
    IF still
    THEN BG_ALPHA_PCT * roi + (100 - BG_ALPHA_PCT) * bg
    ELSE 100 * bg

\* The pixels tried: in a corner, on the inner rim of the margin and just
\* inside it, in a ROI as high and wide as twice the margin or a little
\* more; the grey levels put the difference at the threshold, one above it
\* and far from it.
UpdateInputs ==
    {[done |-> TRUE, h |-> h, w |-> w, p |-> <<y, x>>,
      roi |-> roi, aligned_bg |-> a, bg |-> b] :
        h \in (2 * EDGE_MARGIN)..(2 * EDGE_MARGIN + MaxOver),
        w \in (2 * EDGE_MARGIN)..(2 * EDGE_MARGIN + MaxOver),
        y \in {0, EDGE_MARGIN - 1, EDGE_MARGIN, 2 * EDGE_MARGIN - 1},
        x \in {0, EDGE_MARGIN - 1, EDGE_MARGIN, 2 * EDGE_MARGIN - 1},
        roi \in {60, 100, 140, 141},
        a \in {100, 180},
        b \in {100, 180}}

InitUpdate ==
    /\ ImageIdle
    /\ op_in \in UpdateInputs
    /\ op_out = NoOp

\* The background update of one cycle at the pixel (car_detector.py:316-320)
UpdateBackground ==
    /\ ~op_out.done
    /\ op_out' = [done |-> TRUE,
                  bg100 |-> update_bg_at(op_in.p, op_in.h, op_in.w,
                                         op_in.roi, op_in.aligned_bg,
                                         op_in.bg)]
    /\ UNCHANGED ImageRest

NextUpdate == UpdateBackground

SpecUpdate == InitUpdate /\ [][NextUpdate]_vars

\* C30: a Background Model pixel whose aligned difference exceeds the
\* threshold is left unchanged by the cycle; every other pixel moves toward
\* the current ROI value by the learning rate 0.01.
C30_MotionPixelsKept ==
    op_out.done =>
        IF Abs(op_in.roi - op_in.aligned_bg) > PIXEL_THRESHOLD
        THEN op_out.bg100 = 100 * op_in.bg
        ELSE op_out.bg100 =
                BG_ALPHA_PCT * op_in.roi + (100 - BG_ALPHA_PCT) * op_in.bg

\* ------------------------------------------------------------------------
\* _find_largest_blob on masks of several blobs (car_detector.py:322-373)
\* ------------------------------------------------------------------------
\* A filled block of w columns and h rows with its corner at row y,
\* column x.
Block(x, y, w, h) ==
    {<<row, col>> : row \in y..(y + h - 1), col \in x..(x + w - 1)}

\* The same block with one pixel in four set, along diagonals.
SparseBlock(x, y, w, h) ==
    {p \in Block(x, y, w, h) : (p[1] + p[2]) % 4 = 0}

\* The widths and heights of the blocks tried: around the thresholds.
LeftWidths == {MIN_BLOB_WIDTH - 1, MIN_BLOB_WIDTH, MIN_BLOB_WIDTH + 1}
RightWidths == {MIN_BLOB_WIDTH - 1, MIN_BLOB_WIDTH, MIN_BLOB_WIDTH + 2}
LeftHeights == {MIN_BLOB_HEIGHT - 1, MIN_BLOB_HEIGHT + 1}
RightHeights == {MIN_BLOB_HEIGHT, MIN_BLOB_HEIGHT + 2}

\* The masks tried: a block on the left, filled or sparse, a block on the
\* right at the same rows or below, and between them one column of k set
\* pixels, which joins the two blocks into one run of active columns when
\* k = 2 and parts them otherwise.
SearchMasks ==
    {(IF sparse THEN SparseBlock(2, 0, wa, ha) ELSE Block(2, 0, wa, ha))
        \cup Block(2 + wa, 0, 1, k)
        \cup Block(3 + wa, yb, wb, hb) :
        sparse \in BOOLEAN, wa \in LeftWidths, ha \in LeftHeights,
        k \in 0..2, wb \in RightWidths, hb \in RightHeights,
        yb \in {0, MIN_BLOB_HEIGHT + 4}}

\* motion_frac = blob_area / roi_area if roi_area > 0 else 0.0
\* (car_detector.py:325-326), as numerator and denominator.
motion_fraction(blob_area, roi_area) ==
    IF roi_area > 0 THEN <<blob_area, roi_area>> ELSE <<0, 1>>

InitSearch ==
    /\ ImageIdle
    /\ \E m \in SearchMasks, o \in TestOrigins :
          op_in = [done |-> TRUE, mask |-> m,
                   roi_x1 |-> o[1], roi_y1 |-> o[2]]
    /\ op_out = NoOp

\* motion_box, blob_area = self._find_largest_blob(cleaned, roi_x1, roi_y1)
\* and the motion fraction (car_detector.py:322-326)
FindLargestBlob ==
    /\ ~op_out.done
    /\ LET b == find_largest_blob(op_in.mask, op_in.roi_x1, op_in.roi_y1) IN
       op_out' = [done |-> TRUE, found |-> b.found, box |-> b.box,
                  area |-> b.area,
                  motion_frac |-> motion_fraction(b.area, RoiH * RoiW)]
    /\ UNCHANGED ImageRest

NextSearch == FindLargestBlob

SpecSearch == InitSearch /\ [][NextSearch]_vars

\* The set pixels of the mask inside the box, the box in frame coordinates.
InBox(mask, box, roi_x1, roi_y1) ==
    {p \in mask : /\ p[2] + roi_x1 >= box[1] /\ p[2] + roi_x1 < box[3]
                  /\ p[1] + roi_y1 >= box[2] /\ p[1] + roi_y1 < box[4]}

\* C31: a box returned by _find_largest_blob is at least 15 wide and 8
\* high, the area returned is the number of set pixels inside it and at
\* least 120, every column of the box has at least 2 set pixels in the
\* mask, and the box lies inside the ROI rectangle in frame coordinates;
\* when no box is returned the area is 0 and so is the motion fraction.
C31_BlobThresholds ==
    op_out.done =>
        IF op_out.found
        THEN /\ op_out.box[3] - op_out.box[1] >= MIN_BLOB_WIDTH
             /\ op_out.box[4] - op_out.box[2] >= MIN_BLOB_HEIGHT
             /\ op_out.area >= MIN_BLOB_AREA
             /\ op_out.area =
                   Cardinality(InBox(op_in.mask, op_out.box,
                                     op_in.roi_x1, op_in.roi_y1))
             /\ \A x \in op_out.box[1]..(op_out.box[3] - 1) :
                   Cardinality({p \in op_in.mask :
                                   p[2] + op_in.roi_x1 = x}) >= 2
             /\ op_out.box[1] >= op_in.roi_x1
             /\ op_out.box[3] <= op_in.roi_x1 + RoiW
             /\ op_out.box[2] >= op_in.roi_y1
             /\ op_out.box[4] <= op_in.roi_y1 + RoiH
        ELSE /\ op_out.area = 0
             /\ op_out.motion_frac[1] = 0

\* Two blocks joined by a column of two pixels have been returned as one
\* box in the default ROI, and two parted blocks as no box.
C31_Witness ==
    /\ op_out.done
    /\ op_in.roi_x1 = 32 /\ op_in.roi_y1 = 168
    /\ op_in.mask = Block(2, 0, MIN_BLOB_WIDTH - 1, MIN_BLOB_HEIGHT + 1)
                       \cup Block(MIN_BLOB_WIDTH + 1, 0, 1, 2)
                       \cup Block(MIN_BLOB_WIDTH + 2, 0,
                                  MIN_BLOB_WIDTH - 1, MIN_BLOB_HEIGHT)
    /\ op_out.found
    /\ op_out.box = <<34, 168, 32 + 2 * MIN_BLOB_WIDTH + 1,
                      168 + MIN_BLOB_HEIGHT + 1>>

\* The columns of the mask with at least two set pixels.
ActiveCols(mask) ==
    {c \in 0..(RoiW - 1) : Cardinality({p \in mask : p[2] = c}) >= 2}

\* The maximal intervals [a, b) of consecutive members of the set s.
MaximalRuns(s) ==
    {r \in {<<a, b + 1>> : a \in s, b \in s} :
        /\ r[1] < r[2]
        /\ \A c \in r[1]..(r[2] - 1) : c \in s
        /\ (r[1] - 1) \notin s
        /\ r[2] \notin s}

\* The tallest maximal run of rows with a set pixel in the columns of run,
\* the topmost of them when several are as tall; none when there is no row.
TallestRows(mask, run) ==
    LET rows == {p[1] : p \in {q \in mask : q[2] >= run[1] /\ q[2] < run[2]}}
        runs == MaximalRuns(rows)
    IN  {r \in runs :
            \A o \in runs :
               \/ RunLen(o) < RunLen(r)
               \/ RunLen(o) = RunLen(r) /\ o[1] >= r[1]}

\* The run of columns, taken with its tallest run of rows, is wide, high
\* and large enough.
Qualifies(mask, run) ==
    /\ RunLen(run) >= MIN_BLOB_WIDTH
    /\ \E rr \in TallestRows(mask, run) :
          /\ RunLen(rr) >= MIN_BLOB_HEIGHT
          /\ Cardinality({p \in mask : /\ p[2] >= run[1] /\ p[2] < run[2]
                                       /\ p[1] >= rr[1] /\ p[1] < rr[2]})
                >= MIN_BLOB_AREA

\* C32: _find_largest_blob returns a box if and only if some maximal run of
\* active columns, taken with its tallest contiguous run of rows, is at
\* least 15 wide, 8 high and 120 pixels large; the box returned spans such a
\* run and its tallest run of rows, and no strictly wider run qualifies.
C32_WidestFirst ==
    op_out.done =>
        LET runs == MaximalRuns(ActiveCols(op_in.mask))
            good == {r \in runs : Qualifies(op_in.mask, r)}
            got == <<op_out.box[1] - op_in.roi_x1,
                     op_out.box[3] - op_in.roi_x1>>
            rows == <<op_out.box[2] - op_in.roi_y1,
                      op_out.box[4] - op_in.roi_y1>>
        IN  /\ op_out.found <=> good # {}
            /\ op_out.found =>
                  /\ got \in good
                  /\ rows \in TallestRows(op_in.mask, got)
                  /\ \A r \in good : RunLen(r) <= RunLen(got)

\* The left block is wider than the right one but too sparse; the right
\* block, narrower, has been returned.
C32_Witness ==
    /\ op_out.done
    /\ op_in.roi_x1 = 0 /\ op_in.roi_y1 = 0
    /\ op_in.mask = SparseBlock(2, 0, MIN_BLOB_WIDTH + 1, MIN_BLOB_HEIGHT + 1)
                       \cup Block(MIN_BLOB_WIDTH + 4, 0,
                                  MIN_BLOB_WIDTH, MIN_BLOB_HEIGHT)
    /\ op_out.found
    /\ op_out.box = <<MIN_BLOB_WIDTH + 4, 0,
                      2 * MIN_BLOB_WIDTH + 4, MIN_BLOB_HEIGHT>>

====
